---- MODULE Spec2Model ----
(***************************************************************************)
(* Strategy steps of the NFV VIM update orchestrator                       *)
(* (nfv_vim/strategy/_strategy_steps.py).                                  *)
(*                                                                         *)
(* A step object is a record; each method of a step class is an operator   *)
(* that takes the step (and what the method reads: the tables, the         *)
(* monotonic clock, the event, the outcome of the director operation or    *)
(* the driver response) and yields an outcome record                       *)
(*    [step      |-> the step after the method,                            *)
(*     completes |-> the stage.step_complete(result, reason) calls made,   *)
(*     ncalls    |-> the director / driver invocations made,               *)
(*     ret       |-> the value returned].                                  *)
(* The actions of each specification feed these outcomes to the stage.     *)
(***************************************************************************)
EXTENDS Integers, Sequences, FiniteSets, TLC

VARIABLES
    now,             \* timers.get_monotonic_timestamp_in_ms()
    host_table,      \* tables.tables_get_host_table()
    instance_table,  \* tables.tables_get_instance_table()
    step,            \* the step object under execution
    stage,           \* the stage's record of the step (result, reason)
    strategy,        \* the owning strategy (alarm restrictions, workspace)
    pending,         \* driver callbacks in flight
    calls,           \* director / driver invocations made by the step so far
    shadow,          \* the same step, never serialized, fed the same inputs
    ghost            \* history: last handled event, time of last retry request

vars == <<now, host_table, instance_table, step, stage, strategy, pending,
          calls, shadow, ghost>>

(***************************************************************************)
(* Bounds of the model.                                                    *)
(***************************************************************************)
MaxTicks == 4
TickMs == 500
StartMs == 1000
MaxRetryCount == 1
MaxRetryDelay == 1
MaxRehydrations == 1
LockTickMs == 8000

(***************************************************************************)
(* Results, events, operation states.                                      *)
(***************************************************************************)
SUCCESS == "success"
FAILED == "failed"
WAIT == "wait"
INITIAL == "initial"

HOST_STATE_CHANGED == "host-state-changed"
HOST_AUDIT == "host-audit"
HOST_LOCK_FAILED == "host-lock-failed"
HOST_UNLOCK_FAILED == "host-unlock-failed"
HOST_FW_UPDATE_FAILED == "host-fw-update-failed"
HOST_UPGRADE_FAILED == "host-upgrade-failed"
DISABLE_HOST_SERVICES_FAILED == "disable-host-services-failed"
ENABLE_HOST_SERVICES_FAILED == "enable-host-services-failed"
INSTANCE_STATE_CHANGED == "instance-state-changed"
INSTANCE_AUDIT == "instance-audit"
MIGRATE_INSTANCES_FAILED == "migrate-instances-failed"

\* What a director Operation handle reports: is_inprogress(), is_failed(),
\* or neither.
OperationStates == {"inprogress", "failed", "completed"}

HostNames == {"w-0", "w-1"}
InstanceUuids == {"i-0", "i-1"}
NoName == "none"

Min(a, b) == IF a < b THEN a ELSE b

SeqToSet(s) == {s[i] : i \in 1..Len(s)}

(***************************************************************************)
(* Host table rows.                                                        *)
(***************************************************************************)
HostRows == [present : {TRUE}, admin : {"locked", "unlocked"},
             oper : {"enabled", "disabled"}]

NoHost == [present |-> FALSE]

host_table_get(tbl, host_name) ==
    IF host_name \in DOMAIN tbl /\ tbl[host_name].present
    THEN tbl[host_name] ELSE NoHost

host_is_locked(host) == host.admin = "locked"
host_is_enabled(host) == host.oper = "enabled"
host_is_disabled(host) == host.oper = "disabled"

(***************************************************************************)
(* Instance table rows.  A step keeps references to the instance objects   *)
(* it was built with; a row that left the table keeps its last contents.   *)
(***************************************************************************)
InstanceRows == [present : {TRUE}, host_name : HostNames,
                 admin : {"locked", "unlocked"},
                 oper : {"enabled", "disabled"}]

instance_is_locked(instance) == instance.admin = "locked"
instance_is_enabled(instance) == instance.oper = "enabled"
instance_is_disabled(instance) == instance.oper = "disabled"

instance_table_has(tbl, uuid) == uuid \in DOMAIN tbl /\ tbl[uuid].present

instance_name(uuid) == <<"name", uuid>>

instance_table_on_host(tbl, host_name) ==
    {u \in DOMAIN tbl : tbl[u].present /\ tbl[u].host_name = host_name}

instance_table_exist_on_host(tbl, host_name) ==
    instance_table_on_host(tbl, host_name) # {}

(***************************************************************************)
(* The stage: records the first terminal decision about its current step.  *)
(***************************************************************************)
NewStage == [result |-> INITIAL, reason |-> <<>>, completions |-> 0]

\* A stage that drops the decision it is given.
stage_step_complete_dropped(stg, result, reason) == stg

stage_step_complete_repeat(stg, result, reason) ==
    [stg EXCEPT !.result = result, !.reason = reason, !.completions = @ + 1]

stage_step_complete(stg, result, reason) ==
    IF stg.result \in {SUCCESS, FAILED}
    THEN stg
    ELSE [stg EXCEPT !.result = result, !.reason = reason,
                     !.completions = @ + 1]

RECURSIVE stage_step_completes(_, _)
stage_step_completes(stg, completes) ==
    IF completes = <<>> THEN stg
    ELSE stage_step_completes(
             stage_step_complete(stg, Head(completes)[1], Head(completes)[2]),
             Tail(completes))

\* The controller takes the value returned by step.apply(): WAIT parks the
\* step, SUCCESS / FAILED complete it.
stage_step_applied(stg, ret) ==
    IF ret[1] = WAIT
    THEN IF stg.result = INITIAL THEN [stg EXCEPT !.result = WAIT] ELSE stg
    ELSE stage_step_complete(stg, ret[1], ret[2])

Machine(stp, stg, n) == [step |-> stp, stage |-> stg, calls |-> n]

RunApply(mach, out) ==
    Machine(out.step,
            stage_step_applied(stage_step_completes(mach.stage, out.completes),
                               out.ret),
            mach.calls + out.ncalls)

RunEvent(mach, out) ==
    Machine(out.step,
            stage_step_completes(mach.stage, out.completes),
            mach.calls + out.ncalls)

Outcome(stp, completes, ncalls, ret) ==
    [step |-> stp, completes |-> completes, ncalls |-> ncalls, ret |-> ret]

\* apply()'s common tail: the result of a director operation.
operation_result(op) ==
    IF op = "inprogress" THEN <<WAIT, <<>>>>
    ELSE IF op = "failed" THEN <<FAILED, <<"operation.reason">>>>
    ELSE <<SUCCESS, <<>>>>

(***************************************************************************)
(* UnlockHostsStep                                                         *)
(***************************************************************************)
RETRY_DELAY == 120

UnlockHostsStep_init(host_names, retry_count, retry_delay) ==
    [name |-> "unlock-hosts",
     host_names |-> host_names,
     retry_count |-> retry_count,
     retry_delay |-> retry_delay,
     retries |-> [h \in SeqToSet(host_names) |-> retry_count],
     wait_time |-> 0,
     retry_requested |-> FALSE]

UnlockHostsStep_as_dict(stp) ==
    [name |-> stp.name,
     entity_type |-> "hosts",
     entity_names |-> stp.host_names,
     retry_count |-> stp.retry_count,
     retry_delay |-> stp.retry_delay]

UnlockHostsStep_from_dict_defaults(data, tbl) ==
    [name |-> data.name,
     host_names |-> data.entity_names,
     retry_count |-> 0,
     retry_delay |-> data.retry_delay,
     retries |-> [h \in {n \in SeqToSet(data.entity_names) :
                           host_table_get(tbl, n) # NoHost} |-> 0],
     wait_time |-> 0,
     retry_requested |-> FALSE]

\* from_dict whose data.get('retry_delay', ...) falls back to no delay.
UnlockHostsStep_from_dict_no_delay(data, tbl) ==
    [name |-> data.name,
     host_names |-> data.entity_names,
     retry_count |-> IF "retry_count" \in DOMAIN data
                     THEN data.retry_count ELSE 0,
     retry_delay |-> IF "retry_delay" \in DOMAIN data
                     THEN data.retry_delay ELSE 0,
     retries |-> [h \in {n \in SeqToSet(data.entity_names) :
                           host_table_get(tbl, n) # NoHost} |->
                     IF "retry_count" \in DOMAIN data
                     THEN data.retry_count ELSE 0],
     wait_time |-> 0,
     retry_requested |-> FALSE]

\* data.get('retry_count', 0) and data.get('retry_delay', RETRY_DELAY): a
\* dictionary written before the keys existed has neither.
UnlockHostsStep_from_dict(data, tbl) ==
    LET retry_count == IF "retry_count" \in DOMAIN data
                       THEN data.retry_count ELSE 0
        retry_delay == IF "retry_delay" \in DOMAIN data
                       THEN data.retry_delay ELSE RETRY_DELAY
    IN  [name |-> data.name,
         host_names |-> data.entity_names,
         retry_count |-> retry_count,
         retry_delay |-> retry_delay,
         retries |-> [h \in {n \in SeqToSet(data.entity_names) :
                               host_table_get(tbl, n) # NoHost} |-> retry_count],
         wait_time |-> 0,
         retry_requested |-> FALSE]

UnlockHostsStep_total_hosts_unlocked_enabled(stp, tbl) ==
    IF \E i \in 1..Len(stp.host_names) :
           host_table_get(tbl, stp.host_names[i]) = NoHost
    THEN -1
    ELSE Cardinality({i \in 1..Len(stp.host_names) :
             /\ ~host_is_locked(host_table_get(tbl, stp.host_names[i]))
             /\ host_is_enabled(host_table_get(tbl, stp.host_names[i]))})

UnlockHostsStep_trigger_retry_no_decrement(stp, host_name, now_ms) ==
    [stp EXCEPT !.retry_requested = TRUE,
                !.wait_time = now_ms]

UnlockHostsStep_trigger_retry_keep_time(stp, host_name, now_ms) ==
    [stp EXCEPT !.retry_requested = TRUE,
                !.wait_time = IF stp.retry_requested THEN @ ELSE now_ms,
                !.retries[host_name] = @ - 1]

UnlockHostsStep_trigger_retry(stp, host_name, now_ms) ==
    [stp EXCEPT !.retry_requested = TRUE,
                !.wait_time = now_ms,
                !.retries[host_name] = @ - 1]

UnlockHostsStep_apply(stp, tbl, op) ==
    IF Len(stp.host_names) = UnlockHostsStep_total_hosts_unlocked_enabled(stp, tbl)
    THEN Outcome(stp, <<>>, 0, <<SUCCESS, <<>>>>)
    ELSE Outcome(stp, <<>>, 1, operation_result(op))

\* handle_event that retries a failed unlock whether or not the host is locked.
UnlockHostsStep_handle_event_retries_unlocked(stp, tbl, now_ms, event, event_data, op) ==
    IF event \in {HOST_STATE_CHANGED, HOST_AUDIT}
    THEN LET total == UnlockHostsStep_total_hosts_unlocked_enabled(stp, tbl)
             secs_expired == (now_ms - stp.wait_time) \div 1000
         IN  IF total = -1
             THEN Outcome(stp, <<<<FAILED, <<"host no longer exists">>>>>>, 0, TRUE)
             ELSE IF total = Len(stp.host_names)
             THEN Outcome(stp, <<<<SUCCESS, <<>>>>>>, 0, TRUE)
             ELSE IF stp.retry_requested /\ stp.retry_delay <= secs_expired
             THEN Outcome([stp EXCEPT !.retry_requested = FALSE],
                          IF op = "failed"
                          THEN <<<<FAILED, <<"host unlock failed">>>>>>
                          ELSE <<>>,
                          1, TRUE)
             ELSE Outcome(stp, <<>>, 0, TRUE)
    ELSE IF event = HOST_UNLOCK_FAILED
    THEN IF event_data # NoName /\ event_data \in SeqToSet(stp.host_names)
         THEN IF stp.retries[event_data] > 0
              THEN Outcome(UnlockHostsStep_trigger_retry(stp, event_data, now_ms),
                           <<>>, 0, TRUE)
              ELSE Outcome(stp, <<<<FAILED, <<"host unlock failed">>>>>>, 0, TRUE)
         ELSE Outcome(stp, <<>>, 0, FALSE)
    ELSE Outcome(stp, <<>>, 0, FALSE)

\* handle_event that leaves the retry request set after re-issuing.
UnlockHostsStep_handle_event_keeps_request(stp, tbl, now_ms, event, event_data, op) ==
    IF event \in {HOST_STATE_CHANGED, HOST_AUDIT}
    THEN LET total == UnlockHostsStep_total_hosts_unlocked_enabled(stp, tbl)
             secs_expired == (now_ms - stp.wait_time) \div 1000
         IN  IF total = -1
             THEN Outcome(stp, <<<<FAILED, <<"host no longer exists">>>>>>, 0, TRUE)
             ELSE IF total = Len(stp.host_names)
             THEN Outcome(stp, <<<<SUCCESS, <<>>>>>>, 0, TRUE)
             ELSE IF stp.retry_requested /\ stp.retry_delay <= secs_expired
             THEN Outcome(stp,
                          IF op = "failed"
                          THEN <<<<FAILED, <<"host unlock failed">>>>>>
                          ELSE <<>>,
                          1, TRUE)
             ELSE Outcome(stp, <<>>, 0, TRUE)
    ELSE IF event = HOST_UNLOCK_FAILED
    THEN IF event_data # NoName /\ event_data \in SeqToSet(stp.host_names)
         THEN IF /\ host_is_locked(host_table_get(tbl, event_data))
                 /\ stp.retries[event_data] > 0
              THEN Outcome(UnlockHostsStep_trigger_retry(stp, event_data, now_ms),
                           <<>>, 0, TRUE)
              ELSE Outcome(stp, <<<<FAILED, <<"host unlock failed">>>>>>, 0, TRUE)
         ELSE Outcome(stp, <<>>, 0, FALSE)
    ELSE Outcome(stp, <<>>, 0, FALSE)

\* handle_event that retries a failed unlock of a locked host however many
\* retries the host has left.
UnlockHostsStep_handle_event_unbounded_retries(stp, tbl, now_ms, event, event_data, op) ==
    IF event \in {HOST_STATE_CHANGED, HOST_AUDIT}
    THEN LET total == UnlockHostsStep_total_hosts_unlocked_enabled(stp, tbl)
             secs_expired == (now_ms - stp.wait_time) \div 1000
         IN  IF total = -1
             THEN Outcome(stp, <<<<FAILED, <<"host no longer exists">>>>>>, 0, TRUE)
             ELSE IF total = Len(stp.host_names)
             THEN Outcome(stp, <<<<SUCCESS, <<>>>>>>, 0, TRUE)
             ELSE IF stp.retry_requested /\ stp.retry_delay <= secs_expired
             THEN Outcome([stp EXCEPT !.retry_requested = FALSE],
                          IF op = "failed"
                          THEN <<<<FAILED, <<"host unlock failed">>>>>>
                          ELSE <<>>,
                          1, TRUE)
             ELSE Outcome(stp, <<>>, 0, TRUE)
    ELSE IF event = HOST_UNLOCK_FAILED
    THEN IF event_data # NoName /\ event_data \in SeqToSet(stp.host_names)
         THEN IF host_is_locked(host_table_get(tbl, event_data))
              THEN Outcome([stp EXCEPT !.retry_requested = TRUE,
                                       !.wait_time = now_ms,
                                       !.retries[event_data] = @ - 1],
                           <<>>, 0, TRUE)
              ELSE Outcome(stp, <<<<FAILED, <<"host unlock failed">>>>>>, 0, TRUE)
         ELSE Outcome(stp, <<>>, 0, FALSE)
    ELSE Outcome(stp, <<>>, 0, FALSE)

UnlockHostsStep_handle_event(stp, tbl, now_ms, event, event_data, op) ==
    IF event \in {HOST_STATE_CHANGED, HOST_AUDIT}
    THEN LET total == UnlockHostsStep_total_hosts_unlocked_enabled(stp, tbl)
             secs_expired == (now_ms - stp.wait_time) \div 1000
         IN  IF total = -1
             THEN Outcome(stp, <<<<FAILED, <<"host no longer exists">>>>>>, 0, TRUE)
             ELSE IF total = Len(stp.host_names)
             THEN Outcome(stp, <<<<SUCCESS, <<>>>>>>, 0, TRUE)
             ELSE IF stp.retry_requested /\ stp.retry_delay <= secs_expired
             THEN Outcome([stp EXCEPT !.retry_requested = FALSE],
                          IF op = "failed"
                          THEN <<<<FAILED, <<"host unlock failed">>>>>>
                          ELSE <<>>,
                          1, TRUE)
             ELSE Outcome(stp, <<>>, 0, TRUE)
    ELSE IF event = HOST_UNLOCK_FAILED
    THEN IF event_data # NoName /\ event_data \in SeqToSet(stp.host_names)
         THEN IF /\ host_is_locked(host_table_get(tbl, event_data))
                 /\ stp.retries[event_data] > 0
              THEN Outcome(UnlockHostsStep_trigger_retry(stp, event_data, now_ms),
                           <<>>, 0, TRUE)
              ELSE Outcome(stp, <<<<FAILED, <<"host unlock failed">>>>>>, 0, TRUE)
         ELSE Outcome(stp, <<>>, 0, FALSE)
    ELSE Outcome(stp, <<>>, 0, FALSE)

(***************************************************************************)
(* Environment shared by the specifications.                               *)
(***************************************************************************)
Cur == Machine(step, stage, calls)

SetCur(mach) ==
    /\ step' = mach.step
    /\ stage' = mach.stage
    /\ calls' = mach.calls

NewGhost == [event |-> NoName, retry_at |-> -1, dirty |-> FALSE,
             rehydrations |-> 0]

\* Monotonic time passes.
Advance ==
    /\ now < StartMs + MaxTicks * TickMs
    /\ now' = now + TickMs
    /\ UNCHANGED <<host_table, instance_table, step, stage, strategy, pending,
                   calls, shadow, ghost>>

\* The event ingest path rewrites a host row.
HostChange ==
    \E h \in HostNames, row \in HostRows :
        /\ host_table[h].present
        /\ host_table[h] # row
        /\ host_table' = [host_table EXCEPT ![h] = row]
        /\ UNCHANGED <<now, instance_table, step, stage, strategy, pending,
                       calls, shadow, ghost>>

\* A host leaves the inventory.
HostDelete ==
    \E h \in HostNames :
        /\ host_table[h].present
        /\ host_table' = [host_table EXCEPT ![h].present = FALSE]
        /\ UNCHANGED <<now, instance_table, step, stage, strategy, pending,
                       calls, shadow, ghost>>

(***************************************************************************)
(* Specification of an unlock-hosts step.                                  *)
(***************************************************************************)
UnlockHostLists == {<<>>, <<"w-0">>, <<"w-0", "w-1">>}

InitUnlock ==
    /\ now = StartMs
    /\ host_table \in [HostNames -> HostRows]
    /\ instance_table = <<>>
    /\ \E names \in UnlockHostLists, rc \in 0..MaxRetryCount,
          rd \in 0..MaxRetryDelay :
           step = UnlockHostsStep_init(names, rc, rd)
    /\ stage = NewStage
    /\ strategy = <<>>
    /\ pending = <<>>
    /\ calls = 0
    /\ shadow = Machine(step, stage, calls)
    /\ ghost = NewGhost

\* The same input reaches the never-serialized copy of the step.
ShadowApply(op) ==
    shadow' = IF shadow.stage.result = INITIAL
              THEN RunApply(shadow, UnlockHostsStep_apply(shadow.step, host_table, op))
              ELSE shadow

ShadowEvent(event, event_data, op) ==
    shadow' = IF shadow.stage.result = WAIT
              THEN RunEvent(shadow, UnlockHostsStep_handle_event(
                       shadow.step, host_table, now, event, event_data, op))
              ELSE shadow

UnlockApply ==
    \E op \in OperationStates :
        /\ stage.result = INITIAL
        /\ LET out == UnlockHostsStep_apply(step, host_table, op)
           IN  /\ SetCur(RunApply(Cur, out))
               /\ ghost' = [ghost EXCEPT !.event = "apply"]
        /\ ShadowApply(op)
        /\ UNCHANGED <<now, host_table, instance_table, strategy, pending>>

UnlockDispatch(event, event_data, op) ==
    /\ stage.result = WAIT
    /\ LET out == UnlockHostsStep_handle_event(step, host_table, now, event,
                                               event_data, op)
       IN  /\ SetCur(RunEvent(Cur, out))
           /\ ghost' = [ghost EXCEPT
                  !.event = event,
                  !.retry_at = IF /\ event = HOST_UNLOCK_FAILED
                                  /\ out.step.retry_requested
                                  /\ out.step.retries # step.retries
                               THEN now ELSE @]
    /\ ShadowEvent(event, event_data, op)
    /\ UNCHANGED <<now, host_table, instance_table, strategy, pending>>

UnlockHostAudit ==
    \E op \in OperationStates : UnlockDispatch(HOST_AUDIT, NoName, op)

UnlockHostStateChanged ==
    \E op \in OperationStates : UnlockDispatch(HOST_STATE_CHANGED, NoName, op)

UnlockHostUnlockFailed ==
    \E h \in HostNames :
        /\ host_table[h].present
        /\ UnlockDispatch(HOST_UNLOCK_FAILED, h, "inprogress")

UnlockOtherEvent ==
    \E h \in HostNames :
        /\ host_table[h].present
        /\ UnlockDispatch(HOST_LOCK_FAILED, h, "inprogress")

NextUnlock ==
    \/ UnlockApply
    \/ UnlockHostAudit
    \/ UnlockHostStateChanged
    \/ UnlockHostUnlockFailed
    \/ UnlockOtherEvent
    \/ HostChange
    \/ HostDelete
    \/ Advance

SpecUnlock == InitUnlock /\ [][NextUnlock]_vars

(***************************************************************************)
(* The same step, serialized and rehydrated at arbitrary points, next to   *)
(* the copy that never is; every host stays in the table.                  *)
(***************************************************************************)
UnlockScratchInitial(stp) ==
    /\ ~stp.retry_requested
    /\ \A h \in DOMAIN stp.retries : stp.retries[h] = stp.retry_count

UnlockRehydrate ==
    /\ ghost.rehydrations < MaxRehydrations
    /\ step' = UnlockHostsStep_from_dict(UnlockHostsStep_as_dict(step), host_table)
    /\ ghost' = [ghost EXCEPT !.event = "rehydrate",
                              !.rehydrations = @ + 1,
                              !.dirty = @ \/ ~UnlockScratchInitial(step)]
    /\ UNCHANGED <<now, host_table, instance_table, stage, strategy, pending,
                   calls, shadow>>

\* One target host; the other host of the fleet is not a target.
InitUnlockRehydrate ==
    /\ InitUnlock
    /\ step.host_names = <<"w-0">>
    /\ host_table["w-1"] = [present |-> TRUE, admin |-> "unlocked",
                            oper |-> "enabled"]

TargetHostChange ==
    \E row \in HostRows :
        /\ host_table["w-0"].present
        /\ host_table["w-0"] # row
        /\ host_table' = [host_table EXCEPT !["w-0"] = row]
        /\ UNCHANGED <<now, instance_table, step, stage, strategy, pending,
                       calls, shadow, ghost>>

NextUnlockRehydrate ==
    \/ UnlockApply
    \/ UnlockHostAudit
    \/ UnlockHostStateChanged
    \/ UnlockHostUnlockFailed
    \/ UnlockOtherEvent
    \/ UnlockRehydrate
    \/ TargetHostChange
    \/ Advance

SpecUnlockRehydrate == InitUnlockRehydrate /\ [][NextUnlockRehydrate]_vars

(***************************************************************************)
(* LockHostsStep                                                           *)
(***************************************************************************)
LockHostsStep_init(host_names, wait_until_disabled) ==
    [name |-> "lock-hosts",
     hosts |-> host_names,
     host_names |-> host_names,
     wait_until_disabled |-> wait_until_disabled,
     wait_time |-> 0]

LockHostsStep_total_hosts_locked(stp, tbl) ==
    IF \E i \in 1..Len(stp.host_names) :
           host_table_get(tbl, stp.host_names[i]) = NoHost
    THEN -1
    ELSE Cardinality({i \in 1..Len(stp.host_names) :
             /\ host_is_locked(host_table_get(tbl, stp.host_names[i]))
             /\ (~stp.wait_until_disabled
                    \/ host_is_disabled(host_table_get(tbl, stp.host_names[i])))})

LockHostsStep_instances_not_locked_disabled(stp, itbl) ==
    {u \in DOMAIN itbl :
        /\ \E i \in 1..Len(stp.host_names) :
               u \in instance_table_on_host(itbl, stp.host_names[i])
        /\ ~(instance_is_locked(itbl[u]) /\ instance_is_disabled(itbl[u]))}

\* apply that locks without looking at the instances on the hosts.
LockHostsStep_apply_no_instance_check(stp, tbl, itbl, op) ==
    IF Len(stp.host_names) = LockHostsStep_total_hosts_locked(stp, tbl)
    THEN Outcome(stp, <<>>, 0, <<SUCCESS, <<>>>>)
    ELSE Outcome(stp, <<>>, 1, operation_result(op))

LockHostsStep_apply(stp, tbl, itbl, op) ==
    IF Len(stp.host_names) = LockHostsStep_total_hosts_locked(stp, tbl)
    THEN Outcome(stp, <<>>, 0, <<SUCCESS, <<>>>>)
    ELSE LET instances == LockHostsStep_instances_not_locked_disabled(stp, itbl)
         IN  IF instances # {}
             THEN Outcome(stp, <<>>, 0,
                          <<FAILED, <<"lock failed, instances not migrated or stopped",
                                      stp.host_names, instances>>>>)
             ELSE Outcome(stp, <<>>, 1, operation_result(op))

LockHostsStep_handle_event(stp, tbl, now_ms, event, event_data) ==
    IF event \in {HOST_STATE_CHANGED, HOST_AUDIT}
    THEN LET total == LockHostsStep_total_hosts_locked(stp, tbl)
             waited == IF ~stp.wait_until_disabled /\ stp.wait_time = 0
                       THEN [stp EXCEPT !.wait_time = now_ms] ELSE stp
             secs_expired == (now_ms - waited.wait_time) \div 1000
         IN  IF total = -1
             THEN Outcome(stp, <<<<FAILED, <<"host no longer exists">>>>>>, 0, TRUE)
             ELSE IF ~stp.wait_until_disabled /\ 15 >= secs_expired
             THEN Outcome(waited, <<>>, 0, TRUE)
             ELSE IF total = Len(stp.host_names)
             THEN Outcome(waited, <<<<SUCCESS, <<>>>>>>, 0, TRUE)
             ELSE Outcome(waited, <<>>, 0, FALSE)
    ELSE IF event = HOST_LOCK_FAILED
    THEN IF event_data # NoName /\ event_data \in SeqToSet(stp.host_names)
         THEN Outcome(stp, <<<<FAILED, <<"host lock failed">>>>>>, 0, TRUE)
         ELSE Outcome(stp, <<>>, 0, FALSE)
    ELSE Outcome(stp, <<>>, 0, FALSE)

(***************************************************************************)
(* Specification of a lock-hosts step.                                     *)
(***************************************************************************)
LockHostLists == {<<>>, <<"w-0">>, <<"w-0", "w-1">>}

NoInstance == [present |-> FALSE, host_name |-> "w-0", admin |-> "locked",
               oper |-> "disabled"]

InitLock ==
    /\ now = StartMs
    /\ host_table \in [HostNames -> HostRows]
    /\ \E row \in InstanceRows :
           instance_table = [u \in InstanceUuids |->
                                IF u = "i-0" THEN row ELSE NoInstance]
    /\ \E names \in LockHostLists, wud \in BOOLEAN :
           step = LockHostsStep_init(names, wud)
    /\ stage = NewStage
    /\ strategy = <<>>
    /\ pending = <<>>
    /\ calls = 0
    /\ shadow = <<>>
    /\ ghost = [event |-> NoName]

LockAdvance ==
    /\ now < StartMs + MaxTicks * LockTickMs
    /\ now' = now + LockTickMs
    /\ UNCHANGED <<host_table, instance_table, step, stage, strategy, pending,
                   calls, shadow, ghost>>

\* The event ingest path rewrites an instance row.
InstanceChange ==
    \E u \in InstanceUuids, row \in InstanceRows :
        /\ instance_table[u].present
        /\ instance_table[u] # row
        /\ instance_table' = [instance_table EXCEPT ![u] = row]
        /\ UNCHANGED <<now, host_table, step, stage, strategy, pending, calls,
                       shadow, ghost>>

LockApply ==
    \E op \in OperationStates :
        /\ stage.result = INITIAL
        /\ SetCur(RunApply(Cur, LockHostsStep_apply(step, host_table,
                                                    instance_table, op)))
        /\ ghost' = [ghost EXCEPT !.event = "apply"]
        /\ UNCHANGED <<now, host_table, instance_table, strategy, pending,
                       shadow>>

LockDispatch(event, event_data) ==
    /\ stage.result = WAIT
    /\ SetCur(RunEvent(Cur, LockHostsStep_handle_event(step, host_table, now,
                                                       event, event_data)))
    /\ ghost' = [ghost EXCEPT !.event = event]
    /\ UNCHANGED <<now, host_table, instance_table, strategy, pending, shadow>>

LockHostAudit == LockDispatch(HOST_AUDIT, NoName)

LockHostStateChanged == LockDispatch(HOST_STATE_CHANGED, NoName)

LockHostLockFailed ==
    \E h \in HostNames :
        /\ host_table[h].present
        /\ LockDispatch(HOST_LOCK_FAILED, h)

LockOtherEvent ==
    \E h \in HostNames :
        /\ host_table[h].present
        /\ LockDispatch(HOST_UNLOCK_FAILED, h)

NextLock ==
    \/ LockApply
    \/ LockHostAudit
    \/ LockHostStateChanged
    \/ LockHostLockFailed
    \/ LockOtherEvent
    \/ HostChange
    \/ HostDelete
    \/ InstanceChange
    \/ LockAdvance

SpecLock == InitLock /\ [][NextLock]_vars

(***************************************************************************)
(* MigrateInstancesStep and StopInstancesStep                              *)
(***************************************************************************)
MigrateInstancesStep_init(instance_uuids, itbl) ==
    [name |-> "migrate-instances",
     instances |-> instance_uuids,
     instance_uuids |-> instance_uuids,
     instance_host_names |-> [u \in SeqToSet(instance_uuids) |-> itbl[u].host_name]]

MigrateInstancesStep_all_instances_migrated(stp, itbl) ==
    \A u \in DOMAIN stp.instance_host_names :
        ~instance_table_exist_on_host(itbl, stp.instance_host_names[u])

\* The first instance of self._instances found on another host than the one
\* captured at creation, 0 if there is none.
instances_first_moved(stp, itbl) ==
    LET moved == {i \in 1..Len(stp.instances) :
                     itbl[stp.instances[i]].host_name
                         # stp.instance_host_names[stp.instances[i]]}
    IN  IF moved = {} THEN 0
        ELSE CHOOSE i \in moved : \A j \in moved : i <= j

instances_moved_reason(stp, itbl, i) ==
    <<"instance", stp.instances[i], "has moved from",
      stp.instance_host_names[stp.instances[i]], "to",
      itbl[stp.instances[i]].host_name, "after strategy created">>

MigrateInstancesStep_apply_no_moved_check(stp, itbl, op) ==
    IF MigrateInstancesStep_all_instances_migrated(stp, itbl)
    THEN Outcome(stp, <<>>, 0, <<SUCCESS, <<>>>>)
    ELSE Outcome(stp, <<>>, 1, operation_result(op))

MigrateInstancesStep_apply(stp, itbl, op) ==
    IF MigrateInstancesStep_all_instances_migrated(stp, itbl)
    THEN Outcome(stp, <<>>, 0, <<SUCCESS, <<>>>>)
    ELSE LET i == instances_first_moved(stp, itbl)
         IN  IF i # 0
             THEN Outcome(stp, <<>>, 0,
                          <<FAILED, instances_moved_reason(stp, itbl, i)>>)
             ELSE Outcome(stp, <<>>, 1, operation_result(op))

MigrateInstancesStep_handle_event(stp, itbl, event, event_data) ==
    IF event \in {INSTANCE_STATE_CHANGED, INSTANCE_AUDIT}
    THEN IF MigrateInstancesStep_all_instances_migrated(stp, itbl)
         THEN Outcome(stp, <<<<SUCCESS, <<>>>>>>, 0, TRUE)
         ELSE Outcome(stp, <<>>, 0, FALSE)
    ELSE IF event = MIGRATE_INSTANCES_FAILED
    THEN Outcome(stp, <<<<FAILED, <<event_data>>>>>>, 0, TRUE)
    ELSE Outcome(stp, <<>>, 0, FALSE)

StopInstancesStep_init(instance_uuids, itbl) ==
    [name |-> "stop-instances",
     instances |-> instance_uuids,
     instance_uuids |-> instance_uuids,
     instance_host_names |-> [u \in SeqToSet(instance_uuids) |-> itbl[u].host_name]]

StopInstancesStep_total_instances_locked_disabled(stp, itbl) ==
    IF \E i \in 1..Len(stp.instance_uuids) :
           ~instance_table_has(itbl, stp.instance_uuids[i])
    THEN -1
    ELSE Cardinality({i \in 1..Len(stp.instance_uuids) :
             /\ instance_is_locked(itbl[stp.instance_uuids[i]])
             /\ instance_is_disabled(itbl[stp.instance_uuids[i]])})

StopInstancesStep_apply(stp, itbl, op) ==
    IF Len(stp.instance_uuids)
           = StopInstancesStep_total_instances_locked_disabled(stp, itbl)
    THEN Outcome(stp, <<>>, 0, <<SUCCESS, <<>>>>)
    ELSE LET i == instances_first_moved(stp, itbl)
         IN  IF i # 0
             THEN Outcome(stp, <<>>, 0,
                          <<FAILED, instances_moved_reason(stp, itbl, i)>>)
             ELSE Outcome(stp, <<>>, 1, operation_result(op))

StopInstancesStep_handle_event(stp, itbl, event, event_data) ==
    IF event \in {INSTANCE_STATE_CHANGED, INSTANCE_AUDIT}
    THEN LET total == StopInstancesStep_total_instances_locked_disabled(stp, itbl)
         IN  IF total = -1
             THEN Outcome(stp, <<<<FAILED, <<"instance no longer exists">>>>>>,
                          0, TRUE)
             ELSE IF total = Len(stp.instance_uuids)
             THEN Outcome(stp, <<<<SUCCESS, <<>>>>>>, 0, TRUE)
             ELSE Outcome(stp, <<>>, 0, FALSE)
    ELSE Outcome(stp, <<>>, 0, FALSE)

MigrateInstancesStep_as_dict(stp) ==
    [name |-> stp.name,
     entity_type |-> "instances",
     entity_names |-> [i \in 1..Len(stp.instances) |->
                          instance_name(stp.instances[i])],
     entity_uuids |-> stp.instance_uuids,
     instance_host_names |-> stp.instance_host_names]

\* The instances still in the table are looked up again; the captured host
\* is kept for these only.
MigrateInstancesStep_from_dict(data, itbl) ==
    LET live == SelectSeq(data.entity_uuids,
                          LAMBDA u : instance_table_has(itbl, u))
    IN  [name |-> data.name,
         instances |-> live,
         instance_uuids |-> data.entity_uuids,
         instance_host_names |->
             [u \in SeqToSet(live) |-> data.instance_host_names[u]]]

StopInstancesStep_as_dict(stp) ==
    [name |-> stp.name,
     entity_type |-> "instances",
     entity_names |-> [i \in 1..Len(stp.instances) |->
                          instance_name(stp.instances[i])],
     entity_uuids |-> stp.instance_uuids,
     instance_host_names |-> stp.instance_host_names]

StopInstancesStep_from_dict(data, itbl) ==
    LET live == SelectSeq(data.entity_uuids,
                          LAMBDA u : instance_table_has(itbl, u))
    IN  [name |-> data.name,
         instances |-> live,
         instance_uuids |-> data.entity_uuids,
         instance_host_names |->
             [u \in SeqToSet(live) |-> data.instance_host_names[u]]]

(***************************************************************************)
(* Specification of a migrate-instances or stop-instances step: the step   *)
(* is built from the instances as they are in the table, the table then    *)
(* changes, and the step is applied and fed events.                        *)
(***************************************************************************)
InstanceLists == {<<>>, <<"i-0">>, <<"i-0", "i-1">>}

InitInstances ==
    /\ now = StartMs
    /\ host_table \in [HostNames -> {[present |-> TRUE, admin |-> "unlocked",
                                       oper |-> "enabled"]}]
    /\ instance_table \in [InstanceUuids -> InstanceRows]
    /\ \E uuids \in InstanceLists :
           \/ step = MigrateInstancesStep_init(uuids, instance_table)
           \/ step = StopInstancesStep_init(uuids, instance_table)
    /\ stage = NewStage
    /\ strategy = <<>>
    /\ pending = <<>>
    /\ calls = 0
    /\ shadow = <<>>
    /\ ghost = [event |-> NoName, loads |-> 0]

\* An instance leaves the inventory; the object the step refers to remains.
InstanceDelete ==
    \E u \in InstanceUuids :
        /\ instance_table[u].present
        /\ instance_table' = [instance_table EXCEPT ![u].present = FALSE]
        /\ UNCHANGED <<now, host_table, step, stage, strategy, pending, calls,
                       shadow, ghost>>

InstancesStep_apply(stp, itbl, op) ==
    IF stp.name = "migrate-instances"
    THEN MigrateInstancesStep_apply(stp, itbl, op)
    ELSE StopInstancesStep_apply(stp, itbl, op)

InstancesStep_handle_event(stp, itbl, event, event_data) ==
    IF stp.name = "migrate-instances"
    THEN MigrateInstancesStep_handle_event(stp, itbl, event, event_data)
    ELSE StopInstancesStep_handle_event(stp, itbl, event, event_data)

InstancesApply ==
    \E op \in OperationStates :
        /\ stage.result = INITIAL
        /\ SetCur(RunApply(Cur, InstancesStep_apply(step, instance_table, op)))
        /\ ghost' = [ghost EXCEPT !.event = "apply"]
        /\ UNCHANGED <<now, host_table, instance_table, strategy, pending,
                       shadow>>

InstancesDispatch(event, event_data) ==
    /\ stage.result = WAIT
    /\ SetCur(RunEvent(Cur, InstancesStep_handle_event(step, instance_table,
                                                       event, event_data)))
    /\ ghost' = [ghost EXCEPT !.event = event]
    /\ UNCHANGED <<now, host_table, instance_table, strategy, pending, shadow>>

InstancesAudit == InstancesDispatch(INSTANCE_AUDIT, NoName)

InstancesStateChanged == InstancesDispatch(INSTANCE_STATE_CHANGED, NoName)

InstancesMigrateFailed ==
    InstancesDispatch(MIGRATE_INSTANCES_FAILED, "migrate failed")

InstancesOtherEvent == InstancesDispatch(HOST_AUDIT, NoName)

InstancesStep_as_dict(stp) ==
    IF stp.name = "migrate-instances"
    THEN MigrateInstancesStep_as_dict(stp)
    ELSE StopInstancesStep_as_dict(stp)

InstancesStep_from_dict(data, itbl) ==
    IF data.name = "migrate-instances"
    THEN MigrateInstancesStep_from_dict(data, itbl)
    ELSE StopInstancesStep_from_dict(data, itbl)

\* The strategy is written out and read back before the step is applied or
\* while it waits.
InstancesLoad ==
    /\ stage.result \in {INITIAL, WAIT}
    /\ ghost.loads < MaxRehydrations
    /\ step' = InstancesStep_from_dict(InstancesStep_as_dict(step),
                                       instance_table)
    /\ ghost' = [ghost EXCEPT !.event = "load", !.loads = @ + 1]
    /\ UNCHANGED <<now, host_table, instance_table, stage, strategy, pending,
                   calls, shadow>>

NextInstances ==
    \/ InstancesApply
    \/ InstancesAudit
    \/ InstancesStateChanged
    \/ InstancesMigrateFailed
    \/ InstancesOtherEvent
    \/ InstanceChange
    \/ InstanceDelete
    \/ InstancesLoad

SpecInstances == InitInstances /\ [][NextInstances]_vars

(***************************************************************************)
(* QueryAlarmsStep, WaitDataSyncStep and WaitAlarmsClearStep               *)
(***************************************************************************)
MaxAlarms == 2

PollTickMs == 60000

AlarmIds == {"100.101", "200.005"}

Alarms == [alarm_id : AlarmIds, mgmt_affecting : {"True", "False"}]

AlarmLists == UNION {[1..n -> Alarms] : n \in 0..MaxAlarms}

IgnoreLists == {<<>>, <<"200.005">>}

AlarmRestrictions == {"strict", "relaxed"}

FmServices == {"platform", "openstack"}

\* A driver completion: {completed, result-data}.
AlarmResponses ==
    {[completed |-> FALSE, result_data |-> <<>>]}
        \cup [completed : {TRUE}, result_data : AlarmLists]

NewStrategy(alarm_restrictions) ==
    [alarm_restrictions |-> alarm_restrictions, nfvi_alarms |-> <<>>]

alarm_kept_ignoring_restrictions(alarm_restrictions, ignore_alarms, nfvi_alarm) ==
    nfvi_alarm.alarm_id \notin SeqToSet(ignore_alarms)

\* The filter the three callbacks apply to each reported alarm.
alarm_kept(alarm_restrictions, ignore_alarms, nfvi_alarm) ==
    IF alarm_restrictions = "relaxed" /\ nfvi_alarm.mgmt_affecting = "False"
    THEN FALSE
    ELSE nfvi_alarm.alarm_id \notin SeqToSet(ignore_alarms)

alarms_kept(alarm_restrictions, ignore_alarms, result_data) ==
    SelectSeq(result_data,
              LAMBDA a : alarm_kept(alarm_restrictions, ignore_alarms, a))

alarm_ids(nfvi_alarms) ==
    [i \in 1..Len(nfvi_alarms) |-> nfvi_alarms[i].alarm_id]

\* Effects of a callback or handler of these steps: the step, the strategy
\* workspace, the step_complete calls made and the driver queries issued.
AlarmOutcome(stp, strat, completes, queries, ret) ==
    [step |-> stp, strategy |-> strat, completes |-> completes,
     queries |-> queries, ret |-> ret]

QueryAlarmsStep_init(fail_on_alarms, ignore_alarms) ==
    [name |-> "query-alarms",
     fail_on_alarms |-> fail_on_alarms,
     ignore_alarms |-> ignore_alarms]

QueryAlarmsStep_query_alarms_callback(stp, strat, fm_service, response) ==
    IF response.completed
    THEN LET nfvi_alarms ==
                 strat.nfvi_alarms
                     \o alarms_kept(strat.alarm_restrictions,
                                    stp.ignore_alarms, response.result_data)
             strat2 == [strat EXCEPT !.nfvi_alarms = nfvi_alarms]
         IN  IF stp.fail_on_alarms /\ nfvi_alarms # <<>>
             THEN AlarmOutcome(stp, strat2,
                      <<<<FAILED, <<"alarms", alarm_ids(nfvi_alarms), "from",
                                    fm_service, "are present">>>>>>,
                      {}, NoName)
             ELSE AlarmOutcome(stp, strat2, <<<<SUCCESS, <<>>>>>>, {}, NoName)
    ELSE AlarmOutcome(stp, strat, <<<<FAILED, <<>>>>>>, {}, NoName)

QueryAlarmsStep_apply(stp, strat, fault_mgmt_plugin_disabled) ==
    AlarmOutcome(stp, [strat EXCEPT !.nfvi_alarms = <<>>], <<>>,
                 IF fault_mgmt_plugin_disabled
                 THEN {"platform"} ELSE {"platform", "openstack"},
                 <<WAIT, <<>>>>)

WaitDataSyncStep_init(ignore_alarms) ==
    [name |-> "wait-data-sync",
     ignore_alarms |-> ignore_alarms,
     wait_time |-> 0,
     query_inprogress |-> FALSE]

\* The callback that takes any completed answer for a clear one.
WaitDataSyncStep_query_alarms_callback_ignoring_residual(stp, strat, response) ==
    LET stp2 == [stp EXCEPT !.query_inprogress = FALSE]
    IN  IF response.completed
        THEN LET nfvi_alarms ==
                     alarms_kept(strat.alarm_restrictions, stp.ignore_alarms,
                                 response.result_data)
                 strat2 == [strat EXCEPT !.nfvi_alarms = nfvi_alarms]
             IN  AlarmOutcome(stp2, strat2, <<<<SUCCESS, <<>>>>>>, {}, NoName)
        ELSE AlarmOutcome(stp2, strat, <<<<FAILED, <<>>>>>>, {}, NoName)

WaitDataSyncStep_query_alarms_callback(stp, strat, response) ==
    LET stp2 == [stp EXCEPT !.query_inprogress = FALSE]
    IN  IF response.completed
        THEN LET nfvi_alarms ==
                     alarms_kept(strat.alarm_restrictions, stp.ignore_alarms,
                                 response.result_data)
                 strat2 == [strat EXCEPT !.nfvi_alarms = nfvi_alarms]
             IN  IF nfvi_alarms # <<>>
                 THEN AlarmOutcome(stp2, strat2, <<>>, {}, NoName)
                 ELSE AlarmOutcome(stp2, strat2, <<<<SUCCESS, <<>>>>>>, {},
                                   NoName)
        ELSE AlarmOutcome(stp2, strat, <<<<FAILED, <<>>>>>>, {}, NoName)

WaitDataSyncStep_apply(stp, strat) ==
    AlarmOutcome(stp, strat, <<>>, {}, <<WAIT, <<>>>>)

WaitDataSyncStep_handle_event(stp, strat, now_ms, event) ==
    IF event = HOST_AUDIT
    THEN LET wait_time == IF stp.wait_time = 0 THEN now_ms ELSE stp.wait_time
             secs_expired == (now_ms - wait_time) \div 1000
         IN  IF 120 <= secs_expired /\ ~stp.query_inprogress
             THEN AlarmOutcome([stp EXCEPT !.wait_time = wait_time,
                                           !.query_inprogress = TRUE],
                               strat, <<>>, {"platform"}, TRUE)
             ELSE AlarmOutcome([stp EXCEPT !.wait_time = wait_time],
                               strat, <<>>, {}, TRUE)
    ELSE AlarmOutcome(stp, strat, <<>>, {}, FALSE)

WaitAlarmsClearStep_init(first_query_delay_in_secs, ignore_alarms) ==
    [name |-> "wait-alarms-clear",
     first_query_delay_in_secs |-> first_query_delay_in_secs,
     ignore_alarms |-> ignore_alarms,
     wait_time |-> 0,
     query_inprogress |-> FALSE]

WaitAlarmsClearStep_query_alarms_callback(stp, strat, response) ==
    LET stp2 == [stp EXCEPT !.query_inprogress = FALSE]
    IN  IF response.completed
        THEN LET nfvi_alarms ==
                     alarms_kept(strat.alarm_restrictions, stp.ignore_alarms,
                                 response.result_data)
                 strat2 == [strat EXCEPT !.nfvi_alarms = nfvi_alarms]
             IN  IF nfvi_alarms # <<>>
                 THEN AlarmOutcome(stp2, strat2, <<>>, {}, NoName)
                 ELSE AlarmOutcome(stp2, strat2, <<<<SUCCESS, <<>>>>>>, {},
                                   NoName)
        ELSE AlarmOutcome(stp2, strat, <<<<FAILED, <<>>>>>>, {}, NoName)

WaitAlarmsClearStep_apply(stp, strat) ==
    AlarmOutcome(stp, strat, <<>>, {}, <<WAIT, <<>>>>)

WaitAlarmsClearStep_handle_event(stp, strat, now_ms, event) ==
    IF event = HOST_AUDIT
    THEN LET wait_time == IF stp.wait_time = 0 THEN now_ms ELSE stp.wait_time
             secs_expired == (now_ms - wait_time) \div 1000
         IN  IF stp.first_query_delay_in_secs <= secs_expired
                    /\ ~stp.query_inprogress
             THEN AlarmOutcome([stp EXCEPT !.wait_time = wait_time,
                                           !.query_inprogress = TRUE],
                               strat, <<>>, {"platform"}, TRUE)
             ELSE AlarmOutcome([stp EXCEPT !.wait_time = wait_time],
                               strat, <<>>, {}, TRUE)
    ELSE AlarmOutcome(stp, strat, <<>>, {}, FALSE)

(***************************************************************************)
(* Specification of the alarm steps: the step is applied, audits arrive    *)
(* as time passes, and the driver completes the queries in any order with  *)
(* any response.                                                           *)
(***************************************************************************)
FirstQueryDelays == {0, 60}

NewAlarmGhost ==
    [event |-> NoName, reported |-> <<>>, delivered |-> {},
     incomplete |-> FALSE, attempts |-> 0]

InitAlarms ==
    /\ now = StartMs
    /\ host_table = <<>>
    /\ instance_table = <<>>
    /\ \E r \in AlarmRestrictions : strategy = NewStrategy(r)
    /\ \E ignore_alarms \in IgnoreLists :
           \/ \E f \in BOOLEAN : step = QueryAlarmsStep_init(f, ignore_alarms)
           \/ step = WaitDataSyncStep_init(ignore_alarms)
           \/ \E d \in FirstQueryDelays :
                  step = WaitAlarmsClearStep_init(d, ignore_alarms)
    /\ stage = NewStage
    /\ pending = {}
    /\ calls = 0
    /\ shadow = <<>>
    /\ ghost = NewAlarmGhost

AlarmAdvance ==
    /\ step.name \in {"wait-data-sync", "wait-alarms-clear"}
    /\ now < StartMs + MaxTicks * PollTickMs
    /\ now' = now + PollTickMs
    /\ UNCHANGED <<host_table, instance_table, step, stage, strategy, pending,
                   calls, shadow, ghost>>

AlarmsStep_apply(stp, strat, fault_mgmt_plugin_disabled) ==
    IF stp.name = "query-alarms"
    THEN QueryAlarmsStep_apply(stp, strat, fault_mgmt_plugin_disabled)
    ELSE IF stp.name = "wait-data-sync"
    THEN WaitDataSyncStep_apply(stp, strat)
    ELSE WaitAlarmsClearStep_apply(stp, strat)

AlarmsStep_handle_event(stp, strat, now_ms, event) ==
    IF stp.name = "wait-data-sync"
    THEN WaitDataSyncStep_handle_event(stp, strat, now_ms, event)
    ELSE WaitAlarmsClearStep_handle_event(stp, strat, now_ms, event)

AlarmsStep_query_alarms_callback(stp, strat, fm_service, response) ==
    IF stp.name = "query-alarms"
    THEN QueryAlarmsStep_query_alarms_callback(stp, strat, fm_service, response)
    ELSE IF stp.name = "wait-data-sync"
    THEN WaitDataSyncStep_query_alarms_callback(stp, strat, response)
    ELSE WaitAlarmsClearStep_query_alarms_callback(stp, strat, response)

AlarmsApply ==
    \E fault_mgmt_plugin_disabled \in BOOLEAN :
        LET out == AlarmsStep_apply(step, strategy, fault_mgmt_plugin_disabled)
        IN  /\ step.name \in {"query-alarms", "wait-data-sync",
                              "wait-alarms-clear"}
            /\ stage.result = INITIAL
            /\ SetCur(RunApply(Cur, Outcome(out.step, out.completes, 0,
                                            out.ret)))
            /\ strategy' = out.strategy
            /\ pending' = pending \cup out.queries
            /\ ghost' = [ghost EXCEPT !.event = "apply"]
            /\ UNCHANGED <<now, host_table, instance_table, shadow>>

AlarmsDispatch(event) ==
    LET out == AlarmsStep_handle_event(step, strategy, now, event)
    IN  /\ step.name \in {"wait-data-sync", "wait-alarms-clear"}
        /\ stage.result = WAIT
        /\ SetCur(RunEvent(Cur, Outcome(out.step, out.completes, 0, out.ret)))
        /\ strategy' = out.strategy
        /\ pending' = pending \cup out.queries
        /\ ghost' = [ghost EXCEPT !.event = event]
        /\ UNCHANGED <<now, host_table, instance_table, shadow>>

AlarmsHostAudit == AlarmsDispatch(HOST_AUDIT)

AlarmsOtherEvent == AlarmsDispatch(HOST_STATE_CHANGED)

\* The driver completes one outstanding alarm query.
AlarmsCallback ==
    \E fm_service \in pending, response \in AlarmResponses :
        LET out == AlarmsStep_query_alarms_callback(step, strategy,
                                                     fm_service, response)
        IN  /\ step.name \in {"query-alarms", "wait-data-sync",
                              "wait-alarms-clear"}
            /\ SetCur(RunEvent(Cur, Outcome(out.step, out.completes, 0,
                                            out.ret)))
            /\ strategy' = out.strategy
            /\ pending' = pending \ {fm_service}
            /\ ghost' = [ghost EXCEPT
                   !.event = "callback",
                   !.delivered = @ \cup {fm_service},
                   !.incomplete = @ \/ ~response.completed,
                   !.attempts = @ + Len(out.completes),
                   !.reported =
                       IF ~response.completed THEN @
                       ELSE IF step.name = "query-alarms"
                       THEN @ \o response.result_data
                       ELSE response.result_data]
            /\ UNCHANGED <<now, host_table, instance_table, shadow>>

NextAlarms ==
    \/ AlarmAdvance
    \/ AlarmsApply
    \/ AlarmsHostAudit
    \/ AlarmsOtherEvent
    \/ AlarmsCallback

SpecAlarms == InitAlarms /\ [][NextAlarms]_vars

(***************************************************************************)
(* FwUpdateHostsStep and FwUpdateAbortHostsStep                            *)
(***************************************************************************)
DEVICE_IMAGE_UPDATE_PENDING == "pending"

DEVICE_IMAGE_UPDATE_IN_PROGRESS == "in-progress"

DEVICE_IMAGE_UPDATE_IN_PROGRESS_ABORTED == "in-progress-aborted"

DEVICE_IMAGE_UPDATE_COMPLETED == "completed"

DEVICE_IMAGE_UPDATE_NULL == "null"

DEVICE_IMAGE_UPDATE_FAILED == "failed"

\* What a get-host response can carry as device_image_update: the labels, a
\* string that is none of them, or nothing (NoName).
DeviceImageUpdates ==
    {DEVICE_IMAGE_UPDATE_PENDING, DEVICE_IMAGE_UPDATE_IN_PROGRESS,
     DEVICE_IMAGE_UPDATE_IN_PROGRESS_ABORTED, DEVICE_IMAGE_UPDATE_COMPLETED,
     DEVICE_IMAGE_UPDATE_NULL, DEVICE_IMAGE_UPDATE_FAILED, "bogus", NoName}

GetHostResponses ==
    {[completed |-> FALSE, name |-> NoName, device_image_update |-> NoName]}
        \cup [completed : {TRUE}, name : HostNames \cup {NoName},
              device_image_update : DeviceImageUpdates]

host_uuid(host_name) == <<"uuid", host_name>>

FwUpdateHostsStep_init(host_names) ==
    [name |-> "fw-update-hosts",
     hosts |-> host_names,
     host_names |-> host_names,
     monitoring_fw_update |-> FALSE,
     wait_time |-> 0,
     host_completed |-> [h \in SeqToSet(host_names) |-> <<FALSE, FALSE, <<>>>>]]

FwUpdateHostsStep_check_step_complete_ignoring_failures(stp) ==
    IF \E i \in 1..Len(stp.host_names) :
           stp.host_names[i] \notin DOMAIN stp.host_completed
    THEN <<<<FAILED, <<"failed to get or parse fw update info">>>>>>
    ELSE IF \A i \in 1..Len(stp.host_names) :
                stp.host_completed[stp.host_names[i]][1]
    THEN <<<<SUCCESS, <<>>>>>>
    ELSE <<>>

\* _check_step_complete as the callback runs it, inside its try block: a
\* target without an entry in the completion map raises KeyError in the
\* loop, which the callback catches and answers by failing the step.
FwUpdateHostsStep_check_step_complete(stp) ==
    IF \E i \in 1..Len(stp.host_names) :
           stp.host_names[i] \notin DOMAIN stp.host_completed
    THEN <<<<FAILED, <<"failed to get or parse fw update info">>>>>>
    ELSE LET done == \A i \in 1..Len(stp.host_names) :
                         stp.host_completed[stp.host_names[i]][1]
             failed_hosts ==
                 SelectSeq(stp.host_names,
                           LAMBDA h : /\ stp.host_completed[h][1]
                                      /\ ~stp.host_completed[h][2])
         IN  IF ~done THEN <<>>
             ELSE IF Len(failed_hosts) = 0 THEN <<<<SUCCESS, <<>>>>>>
             ELSE <<<<FAILED, <<"Firmware update failed ;", failed_hosts>>>>>>

\* A recording branch that overwrites the entry of a host already done.
FwUpdateHostsStep_record_overwriting(stp, hostname, success, failed_msg) ==
    IF hostname \notin DOMAIN stp.host_completed
    THEN Outcome(stp, <<<<FAILED, <<"failed to get or parse fw update info">>>>>>,
                 0, NoName)
    ELSE LET stp2 == [stp EXCEPT !.host_completed[hostname] =
                                     <<TRUE, success, failed_msg>>]
             done == \A i \in 1..Len(stp2.host_names) :
                         stp2.host_completed[stp2.host_names[i]][1]
             failed_hosts ==
                 SelectSeq(stp2.host_names,
                           LAMBDA h : /\ stp2.host_completed[h][1]
                                      /\ ~stp2.host_completed[h][2])
         IN  Outcome(stp2,
                     IF \E i \in 1..Len(stp2.host_names) :
                            stp2.host_names[i] \notin DOMAIN stp2.host_completed
                     THEN <<<<FAILED,
                              <<"failed to get or parse fw update info">>>>>>
                     ELSE IF ~done THEN <<>>
                     ELSE IF Len(failed_hosts) = 0 THEN <<<<SUCCESS, <<>>>>>>
                     ELSE <<<<FAILED, <<"Firmware update failed ;",
                                        failed_hosts>>>>>>,
                     0, NoName)

\* One of the branches that record a terminal state for the named host; a
\* name missing from the completion map raises, which the callback catches.
FwUpdateHostsStep_record(stp, hostname, success, failed_msg) ==
    IF hostname \notin DOMAIN stp.host_completed
    THEN Outcome(stp, <<<<FAILED, <<"failed to get or parse fw update info">>>>>>,
                 0, NoName)
    ELSE LET stp2 ==
                 IF stp.host_completed[hostname][1] = FALSE
                 THEN [stp EXCEPT !.host_completed[hostname] =
                                      <<TRUE, success, failed_msg>>]
                 ELSE stp
         IN  Outcome(stp2, FwUpdateHostsStep_check_step_complete(stp2), 0,
                     NoName)

FwUpdateHostsStep_get_host_callback(stp, response) ==
    LET hostname == response.name
        device_image_update == response.device_image_update
    IN  IF ~response.completed \/ hostname = NoName
        THEN Outcome(stp,
                     <<<<FAILED, <<"failed to get or parse fw update info">>>>>>,
                     0, NoName)
        ELSE IF device_image_update = NoName
        THEN Outcome(stp, FwUpdateHostsStep_check_step_complete(stp), 0, NoName)
        ELSE IF device_image_update = DEVICE_IMAGE_UPDATE_PENDING
        THEN FwUpdateHostsStep_record(stp, hostname, FALSE,
                 <<hostname, "firmware update failed ; needs retry">>)
        ELSE IF device_image_update = DEVICE_IMAGE_UPDATE_IN_PROGRESS
        THEN Outcome(stp, FwUpdateHostsStep_check_step_complete(stp), 0, NoName)
        ELSE IF device_image_update = DEVICE_IMAGE_UPDATE_IN_PROGRESS_ABORTED
        THEN FwUpdateHostsStep_record(stp, hostname, FALSE,
                 <<hostname, "firmware update aborted while in progress">>)
        ELSE IF device_image_update \in {DEVICE_IMAGE_UPDATE_COMPLETED,
                                         DEVICE_IMAGE_UPDATE_NULL}
        THEN FwUpdateHostsStep_record(stp, hostname, TRUE, <<>>)
        ELSE IF device_image_update = DEVICE_IMAGE_UPDATE_FAILED
        THEN FwUpdateHostsStep_record(stp, hostname, FALSE,
                 <<hostname, "firmware update failed">>)
        ELSE FwUpdateHostsStep_record(stp, hostname, FALSE,
                 <<hostname, "firmware update failed ; unknown state",
                   device_image_update>>)

FwUpdateHostsStep_apply(stp, op) ==
    IF Len(stp.host_names) # 0
    THEN Outcome(stp, <<>>, 1, operation_result(op))
    ELSE Outcome(stp,
                 <<<<FAILED, <<"no hosts found in firmware update step">>>>>>,
                 0, <<FAILED, <<"no hosts found in firmware update step">>>>)

\* ncalls of the outcome is not used here; the polls issued are in .polls.
FwUpdateHostsStep_handle_event_any_host(stp, now_ms, event, event_data) ==
    IF event = HOST_FW_UPDATE_FAILED
    THEN IF event_data # NoName
         THEN [step |-> stp,
               completes |-> <<<<FAILED, <<"fw image update failed">>>>>>,
               polls |-> {}, ret |-> TRUE]
         ELSE [step |-> stp, completes |-> <<>>, polls |-> {}, ret |-> FALSE]
    ELSE IF event = HOST_AUDIT
    THEN LET wait_time == IF stp.wait_time = 0 THEN now_ms ELSE stp.wait_time
             secs_expired == (now_ms - wait_time) \div 1000
         IN  IF 60 <= secs_expired
             THEN [step |-> [stp EXCEPT !.monitoring_fw_update = TRUE,
                                        !.wait_time = 0],
                   completes |-> <<>>,
                   polls |-> {h \in SeqToSet(stp.hosts) :
                                 ~stp.host_completed[h][1]},
                   ret |-> TRUE]
             ELSE [step |-> [stp EXCEPT !.monitoring_fw_update = TRUE,
                                        !.wait_time = wait_time],
                   completes |-> <<>>, polls |-> {}, ret |-> FALSE]
    ELSE [step |-> stp, completes |-> <<>>, polls |-> {}, ret |-> FALSE]

FwUpdateHostsStep_handle_event(stp, now_ms, event, event_data) ==
    IF event = HOST_FW_UPDATE_FAILED
    THEN IF event_data # NoName /\ event_data \in SeqToSet(stp.host_names)
         THEN [step |-> stp,
               completes |-> <<<<FAILED, <<"fw image update failed">>>>>>,
               polls |-> {}, ret |-> TRUE]
         ELSE [step |-> stp, completes |-> <<>>, polls |-> {}, ret |-> FALSE]
    ELSE IF event = HOST_AUDIT
    THEN LET wait_time == IF stp.wait_time = 0 THEN now_ms ELSE stp.wait_time
             secs_expired == (now_ms - wait_time) \div 1000
         IN  IF 60 <= secs_expired
             THEN [step |-> [stp EXCEPT !.monitoring_fw_update = TRUE,
                                        !.wait_time = 0],
                   completes |-> <<>>,
                   polls |-> {h \in SeqToSet(stp.hosts) :
                                 ~stp.host_completed[h][1]},
                   ret |-> TRUE]
             ELSE [step |-> [stp EXCEPT !.monitoring_fw_update = TRUE,
                                        !.wait_time = wait_time],
                   completes |-> <<>>, polls |-> {}, ret |-> FALSE]
    ELSE [step |-> stp, completes |-> <<>>, polls |-> {}, ret |-> FALSE]

FwUpdateAbortHostsStep_init(host_names) ==
    [name |-> "fw-update-abort-hosts",
     host_names |-> host_names,
     wait_time |-> 0,
     host_completed |-> [h \in SeqToSet(host_names) |-> <<FALSE, FALSE, <<>>>>]]

FwUpdateHostsStep_abort_unsuccessful(stp) ==
    <<FwUpdateAbortHostsStep_init(
          SelectSeq(stp.hosts,
                    LAMBDA h : ~(stp.host_completed[h][1]
                                   /\ stp.host_completed[h][2])))>>

\* abort over the host objects the step holds.
FwUpdateHostsStep_abort(stp) ==
    <<FwUpdateAbortHostsStep_init(
          SelectSeq(stp.hosts,
                    LAMBDA h : stp.host_completed[h][1] = FALSE))>>

FwUpdateHostsStep_as_dict(stp) ==
    [name |-> stp.name,
     entity_type |-> "hosts",
     entity_names |-> stp.host_names,
     entity_uuids |-> [i \in 1..Len(stp.hosts) |-> host_uuid(stp.hosts[i])],
     hosts_completed |-> stp.host_completed]

\* from_dict keeps the names and rebuilds the host objects and the
\* completion map for the hosts still in the host table.
FwUpdateHostsStep_from_dict(data, tbl) ==
    LET live == SelectSeq(data.entity_names,
                          LAMBDA h : host_table_get(tbl, h) # NoHost)
    IN  [name |-> data.name,
         hosts |-> live,
         host_names |-> data.entity_names,
         monitoring_fw_update |-> FALSE,
         wait_time |-> 0,
         host_completed |-> [h \in SeqToSet(live) |-> data.hosts_completed[h]]]

(***************************************************************************)
(* Specification of a fw-update-hosts step: applied, polled on audits as   *)
(* time passes, the polls answered in any order with any response, until   *)
(* the strategy aborts and asks the step for its abort chain.              *)
(***************************************************************************)
FwHostLists == {<<>>, <<"w-0">>, <<"w-0", "w-1">>}

\* Each polling audit sends one get-host request for every host not yet
\* done, whether or not an earlier request for it is still unanswered; the
\* requests in flight are counted per host, up to this many.
MaxFwPolls == 2

\* The clock of a fw-update-hosts step advances by the audit period this
\* many times: a first audit, and two audits that poll.
FwMaxTicks == 2

FwNoPolls == [h \in HostNames |-> 0]

FwIssue(polls) ==
    [h \in HostNames |-> pending[h] + (IF h \in polls THEN 1 ELSE 0)]

NewFwGhost ==
    [event |-> NoName, event_data |-> NoName,
     recorded |-> [h \in HostNames |-> NoName], attempts |-> 0]

InitFw ==
    /\ now = StartMs
    /\ host_table = <<>>
    /\ instance_table = <<>>
    /\ strategy = <<>>
    /\ \E host_names \in FwHostLists : step = FwUpdateHostsStep_init(host_names)
    /\ stage = NewStage
    /\ pending = FwNoPolls
    /\ calls = 0
    /\ shadow = <<>>
    /\ ghost = NewFwGhost

FwAdvance ==
    /\ step.name = "fw-update-hosts"
    /\ shadow = <<>>
    /\ now < StartMs + FwMaxTicks * PollTickMs
    /\ now' = now + PollTickMs
    /\ UNCHANGED <<host_table, instance_table, step, stage, strategy, pending,
                   calls, shadow, ghost>>

FwApply ==
    \E op \in OperationStates :
        LET out == FwUpdateHostsStep_apply(step, op)
        IN  /\ step.name = "fw-update-hosts"
            /\ shadow = <<>>
            /\ stage.result = INITIAL
            /\ SetCur(RunApply(Cur, out))
            /\ ghost' = [ghost EXCEPT
                   !.event = "apply",
                   !.attempts = @ + Len(out.completes)
                                  + (IF out.ret[1] = WAIT THEN 0 ELSE 1)]
            /\ UNCHANGED <<now, host_table, instance_table, strategy, pending,
                           shadow>>

FwDispatch(event, event_data) ==
    LET out == FwUpdateHostsStep_handle_event(step, now, event, event_data)
    IN  /\ step.name = "fw-update-hosts"
        /\ shadow = <<>>
        /\ stage.result = WAIT
        /\ \A h \in out.polls : pending[h] < MaxFwPolls
        /\ SetCur(RunEvent(Cur, Outcome(out.step, out.completes, 0, out.ret)))
        /\ pending' = FwIssue(out.polls)
        /\ ghost' = [ghost EXCEPT !.event = event,
                                  !.event_data = event_data,
                                  !.attempts = @ + Len(out.completes)]
        /\ UNCHANGED <<now, host_table, instance_table, strategy, shadow>>

FwHostAudit == FwDispatch(HOST_AUDIT, NoName)

FwHostFwUpdateFailed ==
    \E h \in HostNames \cup {NoName} : FwDispatch(HOST_FW_UPDATE_FAILED, h)

FwOtherEvent == FwDispatch(HOST_STATE_CHANGED, NoName)

\* The driver completes one outstanding get-host poll.
FwCallback ==
    \E h \in HostNames, response \in GetHostResponses :
        LET out == FwUpdateHostsStep_get_host_callback(step, response)
        IN  /\ step.name = "fw-update-hosts"
            /\ shadow = <<>>
            /\ pending[h] > 0
            /\ SetCur(RunEvent(Cur, out))
            /\ pending' = [pending EXCEPT ![h] = @ - 1]
            /\ ghost' = [ghost EXCEPT
                   !.event = "callback",
                   !.attempts = @ + Len(out.completes),
                   !.recorded =
                       IF /\ response.completed
                          /\ response.name \in DOMAIN step.host_completed
                          /\ response.device_image_update
                                 \notin {NoName, DEVICE_IMAGE_UPDATE_IN_PROGRESS}
                          /\ @[response.name] = NoName
                       THEN [@ EXCEPT ![response.name] =
                                          response.device_image_update]
                       ELSE @]
            /\ UNCHANGED <<now, host_table, instance_table, strategy, shadow>>

\* The strategy aborts: the step is asked for its abort chain and gets no
\* further events.
FwAbort ==
    /\ step.name = "fw-update-hosts"
    /\ shadow = <<>>
    /\ stage.result # INITIAL
    /\ shadow' = FwUpdateHostsStep_abort(step)
    /\ ghost' = [ghost EXCEPT !.event = "abort"]
    /\ UNCHANGED <<now, host_table, instance_table, step, stage, strategy,
                   pending, calls>>

NextFw ==
    \/ FwAdvance
    \/ FwApply
    \/ FwHostAudit
    \/ FwHostFwUpdateFailed
    \/ FwOtherEvent
    \/ FwCallback
    \/ FwAbort

SpecFw == InitFw /\ [][NextFw]_vars

(***************************************************************************)
(* The same while hosts leave the host table and the strategy is saved and *)
(* loaded; the history keeps the hosts that were in the table when the     *)
(* step was built or last loaded.                                          *)
(***************************************************************************)
FwLiveHosts == {h \in HostNames : host_table[h].present}

InitFwSaved ==
    /\ now = StartMs
    /\ host_table = [h \in HostNames |-> [present |-> TRUE]]
    /\ instance_table = <<>>
    /\ strategy = <<>>
    /\ \E host_names \in FwHostLists : step = FwUpdateHostsStep_init(host_names)
    /\ stage = NewStage
    /\ pending = FwNoPolls
    /\ calls = 0
    /\ shadow = <<>>
    /\ ghost = NewFwGhost @@ [loads |-> 0, live |-> HostNames]

FwSavedHostDelete ==
    /\ shadow = <<>>
    /\ stage.result = WAIT
    /\ ghost.loads < MaxRehydrations
    /\ HostDelete

\* The strategy is written out and read back; the polls in flight are lost.
FwSavedLoad ==
    /\ shadow = <<>>
    /\ stage.result = WAIT
    /\ ghost.loads < MaxRehydrations
    /\ step' = FwUpdateHostsStep_from_dict(FwUpdateHostsStep_as_dict(step),
                                           host_table)
    /\ pending' = FwNoPolls
    /\ ghost' = [ghost EXCEPT !.event = "load", !.event_data = NoName,
                              !.loads = @ + 1, !.live = FwLiveHosts]
    /\ UNCHANGED <<now, host_table, instance_table, stage, strategy, calls,
                   shadow>>

NextFwSaved ==
    \/ FwAdvance
    \/ FwApply
    \/ FwHostAudit
    \/ FwHostFwUpdateFailed
    \/ FwOtherEvent
    \/ FwCallback
    \/ FwAbort
    \/ FwSavedHostDelete
    \/ FwSavedLoad

SpecFwSaved == InitFwSaved /\ [][NextFwSaved]_vars

(***************************************************************************)
(* The steps that decide through callbacks, together.                      *)
(***************************************************************************)
InitStepComplete == InitAlarms \/ InitFw

NextStepComplete ==
    \/ step.name # "fw-update-hosts" /\ NextAlarms
    \/ step.name = "fw-update-hosts" /\ NextFw

SpecStepComplete == InitStepComplete /\ [][NextStepComplete]_vars

(***************************************************************************)
(* SwPatchHostsStep                                                        *)
(***************************************************************************)
MaxPatchHosts == 2

\* One entry of a query-hosts response.
SwPatchHosts ==
    [name : HostNames, patch_failed : BOOLEAN, patch_current : BOOLEAN]

SwPatchHostLists == UNION {[1..n -> SwPatchHosts] : n \in 0..MaxPatchHosts}

SwPatchResponses ==
    {[completed |-> FALSE, result_data |-> <<>>]}
        \cup [completed : {TRUE}, result_data : SwPatchHostLists]

SwPatchHostsStep_init(host_names) ==
    [name |-> "sw-patch-hosts",
     host_names |-> host_names,
     host_completed |-> [h \in SeqToSet(host_names) |-> <<FALSE, FALSE, <<>>>>],
     query_inprogress |-> FALSE]

SwPatchHostsStep_record_current_first(host_completed, sw_patch_host) ==
    IF sw_patch_host.name \notin DOMAIN host_completed THEN host_completed
    ELSE IF sw_patch_host.patch_current
    THEN [host_completed EXCEPT ![sw_patch_host.name] = <<TRUE, TRUE, <<>>>>]
    ELSE IF sw_patch_host.patch_failed
    THEN [host_completed EXCEPT ![sw_patch_host.name] =
              <<TRUE, FALSE, <<"software update failed to apply on host",
                               sw_patch_host.name>>>>]
    ELSE host_completed

\* The body of the loop over response['result-data']: the entry of a target
\* is a non-empty tuple, so the .get() test passes for every target.
SwPatchHostsStep_record(host_completed, sw_patch_host) ==
    IF sw_patch_host.name \notin DOMAIN host_completed THEN host_completed
    ELSE IF sw_patch_host.patch_failed
    THEN [host_completed EXCEPT ![sw_patch_host.name] =
              <<TRUE, FALSE, <<"software update failed to apply on host",
                               sw_patch_host.name>>>>]
    ELSE IF sw_patch_host.patch_current
    THEN [host_completed EXCEPT ![sw_patch_host.name] = <<TRUE, TRUE, <<>>>>]
    ELSE host_completed

RECURSIVE SwPatchHostsStep_record_all(_, _)
SwPatchHostsStep_record_all(host_completed, result_data) ==
    IF result_data = <<>> THEN host_completed
    ELSE SwPatchHostsStep_record_all(
             SwPatchHostsStep_record(host_completed, Head(result_data)),
             Tail(result_data))

\* The for ... else over the keys of self._host_completed, in the order
\* the hosts were inserted: no decision while an entry is not completed,
\* otherwise the reason of the last failed entry.
SwPatchHostsStep_decide(stp) ==
    LET keys == {i \in 1..Len(stp.host_names) :
                    stp.host_names[i] \in DOMAIN stp.host_completed}
        failed_at == {i \in keys : ~stp.host_completed[stp.host_names[i]][2]}
    IN  IF \E i \in keys : ~stp.host_completed[stp.host_names[i]][1]
        THEN <<>>
        ELSE IF failed_at # {}
        THEN LET last == CHOOSE i \in failed_at : \A j \in failed_at : j <= i
             IN  <<<<FAILED, stp.host_completed[stp.host_names[last]][3]>>>>
        ELSE <<<<SUCCESS, <<>>>>>>

SwPatchHostsStep_query_hosts_callback(stp, response) ==
    LET stp2 == [stp EXCEPT !.query_inprogress = FALSE]
    IN  IF response.completed
        THEN LET stp3 == [stp2 EXCEPT !.host_completed =
                              SwPatchHostsStep_record_all(@,
                                  response.result_data)]
             IN  Outcome(stp3, SwPatchHostsStep_decide(stp3), 0, NoName)
        ELSE Outcome(stp2, <<>>, 0, NoName)

SwPatchHostsStep_sw_patch_hosts_callback(stp, response) ==
    IF ~response.completed
    THEN Outcome(stp, <<<<FAILED, <<>>>>>>, 0, NoName)
    ELSE Outcome(stp, <<>>, 0, NoName)

\* The driver call is counted in ncalls.
SwPatchHostsStep_apply(stp) == Outcome(stp, <<>>, 1, <<WAIT, <<>>>>)

\* handle_event that asks the driver on every audit.
SwPatchHostsStep_handle_event_every_audit(stp, event) ==
    IF event = HOST_AUDIT
    THEN [step |-> [stp EXCEPT !.query_inprogress = TRUE],
          queries |-> {"query-hosts"}, ret |-> TRUE]
    ELSE [step |-> stp, queries |-> {}, ret |-> FALSE]

SwPatchHostsStep_handle_event(stp, event) ==
    IF event = HOST_AUDIT
    THEN IF ~stp.query_inprogress
         THEN [step |-> [stp EXCEPT !.query_inprogress = TRUE],
               queries |-> {"query-hosts"}, ret |-> TRUE]
         ELSE [step |-> stp, queries |-> {}, ret |-> TRUE]
    ELSE [step |-> stp, queries |-> {}, ret |-> FALSE]

(***************************************************************************)
(* Specification of a sw-patch-hosts step: applied, then polled on every   *)
(* audit, the driver answering with any list of patch-host entries.        *)
(***************************************************************************)
SwPatchTargetLists == {<<>>, <<"w-0">>, <<"w-0", "w-1">>}

NoResponse == [completed |-> FALSE, result_data |-> <<>>]

InitSwPatch ==
    /\ now = StartMs
    /\ host_table = <<>>
    /\ instance_table = <<>>
    /\ strategy = <<>>
    /\ \E host_names \in SwPatchTargetLists :
           step = SwPatchHostsStep_init(host_names)
    /\ stage = NewStage
    /\ pending = {}
    /\ calls = 0
    /\ shadow = <<>>
    /\ ghost = [event |-> NoName, response |-> NoResponse]

SwPatchApply ==
    /\ step.name = "sw-patch-hosts"
    /\ stage.result = INITIAL
    /\ SetCur(RunApply(Cur, SwPatchHostsStep_apply(step)))
    /\ pending' = pending \cup {"update-hosts"}
    /\ ghost' = [ghost EXCEPT !.event = "apply"]
    /\ UNCHANGED <<now, host_table, instance_table, strategy, shadow>>

SwPatchDispatch(event) ==
    LET out == SwPatchHostsStep_handle_event(step, event)
    IN  /\ step.name = "sw-patch-hosts"
        /\ stage.result = WAIT
        /\ step' = out.step
        /\ pending' = pending \cup out.queries
        /\ ghost' = [ghost EXCEPT !.event = event]
        /\ UNCHANGED <<now, host_table, instance_table, stage, strategy,
                       calls, shadow>>

SwPatchHostAudit == SwPatchDispatch(HOST_AUDIT)

SwPatchOtherEvent == SwPatchDispatch(HOST_STATE_CHANGED)

\* The driver completes the update-hosts request of apply.
SwPatchUpdateCallback ==
    \E completed \in BOOLEAN :
        /\ step.name = "sw-patch-hosts"
        /\ "update-hosts" \in pending
        /\ SetCur(RunEvent(Cur, SwPatchHostsStep_sw_patch_hosts_callback(step,
                       [completed |-> completed, result_data |-> <<>>])))
        /\ pending' = pending \ {"update-hosts"}
        /\ ghost' = [ghost EXCEPT !.event = "update-callback"]
        /\ UNCHANGED <<now, host_table, instance_table, strategy, shadow>>

\* The driver completes the outstanding query-hosts poll.
SwPatchQueryCallback ==
    \E response \in SwPatchResponses :
        /\ step.name = "sw-patch-hosts"
        /\ "query-hosts" \in pending
        /\ SetCur(RunEvent(Cur, SwPatchHostsStep_query_hosts_callback(step,
                                                                     response)))
        /\ pending' = pending \ {"query-hosts"}
        /\ ghost' = [ghost EXCEPT !.event = "query-callback",
                                  !.response = response]
        /\ UNCHANGED <<now, host_table, instance_table, strategy, shadow>>

NextSwPatch ==
    \/ SwPatchApply
    \/ SwPatchHostAudit
    \/ SwPatchOtherEvent
    \/ SwPatchUpdateCallback
    \/ SwPatchQueryCallback

SpecSwPatch == InitSwPatch /\ [][NextSwPatch]_vars

(***************************************************************************)
(* KubeHostUpgradeKubeletStep                                              *)
(***************************************************************************)
KUBE_HOST_UPGRADE_KUBELET_FAILED == "kube-host-upgrade-kubelet-failed"

KubeTickMs == 35000

KubeMaxTicks == 7

ToVersion == "v1.19.13"

FromVersion == "v1.18.1"

KubeHostUpgradeKubeletStep_init(host_names, force) ==
    [name |-> "kube-host-upgrade-kubelet",
     host_names |-> host_names,
     host_uuids |-> [i \in 1..Len(host_names) |-> host_uuid(host_names[i])],
     force |-> force,
     wait_time |-> 0,
     query_inprogress |-> FALSE,
     success_state |-> NoName,
     fail_state |-> NoName]

\* The first entry of the list for the given uuid, 0 if there is none.
kube_host_upgrade_first(kube_host_upgrade_list, uuid) ==
    LET at == {i \in 1..Len(kube_host_upgrade_list) :
                  kube_host_upgrade_list[i].host_uuid = uuid}
    IN  IF at = {} THEN 0 ELSE CHOOSE i \in at : \A j \in at : i <= j

kubelet_match_count(stp, strat, kube_host_upgrade_list) ==
    Cardinality({n \in 1..Len(stp.host_uuids) :
        LET i == kube_host_upgrade_first(kube_host_upgrade_list,
                                         stp.host_uuids[n])
        IN  /\ i # 0
            /\ kube_host_upgrade_list[i].kubelet_version = strat.to_version})

KubeHostUpgradeKubeletStep_get_kube_host_upgrade_list_callback(stp, strat, response) ==
    LET stp2 == [stp EXCEPT !.query_inprogress = FALSE]
    IN  IF response.completed
        THEN LET strat2 == [strat EXCEPT !.nfvi_kube_host_upgrade_list =
                                response.result_data]
             IN  IF kubelet_match_count(stp, strat2, response.result_data)
                        = Len(stp.host_uuids)
                 THEN AlarmOutcome(stp2, strat2, <<<<SUCCESS, <<>>>>>>, {},
                                   NoName)
                 ELSE AlarmOutcome(stp2, strat2, <<>>, {}, NoName)
        ELSE AlarmOutcome(stp2, strat, <<<<FAILED, <<response.reason>>>>>>, {},
                          NoName)

KubeHostUpgradeKubeletStep_handle_event(stp, strat, now_ms, event, event_data) ==
    IF event = KUBE_HOST_UPGRADE_KUBELET_FAILED
    THEN IF event_data # NoName /\ event_data \in SeqToSet(stp.host_names)
         THEN AlarmOutcome(stp, strat,
                  <<<<FAILED, <<"kube host upgrade kubelet", event_data,
                                "failed">>>>>>, {}, TRUE)
         ELSE AlarmOutcome(stp, strat, <<>>, {}, FALSE)
    ELSE IF event = HOST_AUDIT
    THEN LET wait_time == IF stp.wait_time = 0 THEN now_ms ELSE stp.wait_time
             secs_expired == (now_ms - wait_time) \div 1000
         IN  IF 60 <= secs_expired /\ ~stp.query_inprogress
             THEN AlarmOutcome([stp EXCEPT !.wait_time = wait_time,
                                           !.query_inprogress = TRUE],
                               strat, <<>>, {"kube-host-upgrade-list"}, TRUE)
             ELSE AlarmOutcome([stp EXCEPT !.wait_time = wait_time],
                               strat, <<>>, {}, TRUE)
    ELSE AlarmOutcome(stp, strat, <<>>, {}, FALSE)

KubeHostUpgradeKubeletStep_apply(stp, op) ==
    Outcome(stp, <<>>, 1, operation_result(op))

(***************************************************************************)
(* Specification of a kube-host-upgrade-kubelet step: each host's kubelet  *)
(* reaches the target version some seconds after the start; the step is    *)
(* applied and polls on audits, and each poll is answered with what the    *)
(* listed hosts run when the answer is made.                               *)
(***************************************************************************)
KubeletMatchSecs == {0, 70, 200}

KubeletTargetLists == {<<>>, <<"w-0">>, <<"w-0", "w-1">>}

\* The orders in which a kube-host-upgrade list may name hosts.
KubeListOrders == {<<>>, <<"w-0">>, <<"w-1">>, <<"w-0", "w-1">>, <<"w-1", "w-0">>}

kubelet_version(tbl, now_ms, host_name) ==
    IF now_ms - StartMs >= tbl[host_name].kubelet_matches_at * 1000
    THEN ToVersion ELSE FromVersion

KubeHostUpgradeResponses(tbl, now_ms) ==
    {[completed |-> FALSE, reason |-> "driver reason", result_data |-> <<>>]}
        \cup {[completed |-> TRUE, reason |-> "",
               result_data |->
                   [i \in 1..Len(order) |->
                       [host_uuid |-> host_uuid(order[i]),
                        kubelet_version |->
                            kubelet_version(tbl, now_ms, order[i])]]] :
              order \in KubeListOrders}

InitKubelet ==
    /\ now = StartMs
    /\ host_table \in [HostNames -> [present : {TRUE},
                                     kubelet_matches_at : KubeletMatchSecs]]
    /\ instance_table = <<>>
    /\ strategy = [to_version |-> ToVersion,
                   nfvi_kube_host_upgrade_list |-> <<>>]
    /\ \E host_names \in KubeletTargetLists :
           step = KubeHostUpgradeKubeletStep_init(host_names, TRUE)
    /\ stage = NewStage
    /\ pending = {}
    /\ calls = 0
    /\ shadow = <<>>
    /\ ghost = [event |-> NoName, event_data |-> NoName,
                response |-> [completed |-> FALSE, reason |-> "",
                              result_data |-> <<>>],
                loads |-> 0]

KubeletAdvance ==
    /\ step.name = "kube-host-upgrade-kubelet"
    /\ now < StartMs + KubeMaxTicks * KubeTickMs
    /\ now' = now + KubeTickMs
    /\ UNCHANGED <<host_table, instance_table, step, stage, strategy, pending,
                   calls, shadow, ghost>>

KubeletApply ==
    \E op \in OperationStates :
        /\ step.name = "kube-host-upgrade-kubelet"
        /\ stage.result = INITIAL
        /\ SetCur(RunApply(Cur, KubeHostUpgradeKubeletStep_apply(step, op)))
        /\ ghost' = [ghost EXCEPT !.event = "apply"]
        /\ UNCHANGED <<now, host_table, instance_table, strategy, pending,
                       shadow>>

KubeletDispatch(event, event_data) ==
    LET out == KubeHostUpgradeKubeletStep_handle_event(step, strategy, now,
                                                       event, event_data)
    IN  /\ step.name = "kube-host-upgrade-kubelet"
        /\ stage.result = WAIT
        /\ SetCur(RunEvent(Cur, Outcome(out.step, out.completes, 0, out.ret)))
        /\ pending' = pending \cup out.queries
        /\ ghost' = [ghost EXCEPT !.event = event, !.event_data = event_data]
        /\ UNCHANGED <<now, host_table, instance_table, strategy, shadow>>

KubeletHostAudit == KubeletDispatch(HOST_AUDIT, NoName)

KubeletFailed ==
    \E h \in HostNames \cup {NoName} :
        KubeletDispatch(KUBE_HOST_UPGRADE_KUBELET_FAILED, h)

KubeletOtherEvent == KubeletDispatch(HOST_STATE_CHANGED, NoName)

\* The driver completes the outstanding kube-host-upgrade list query.
KubeletCallback ==
    \E response \in KubeHostUpgradeResponses(host_table, now) :
        LET out ==
                KubeHostUpgradeKubeletStep_get_kube_host_upgrade_list_callback(
                    step, strategy, response)
        IN  /\ step.name = "kube-host-upgrade-kubelet"
            /\ "kube-host-upgrade-list" \in pending
            /\ SetCur(RunEvent(Cur, Outcome(out.step, out.completes, 0,
                                            out.ret)))
            /\ strategy' = out.strategy
            /\ pending' = pending \ {"kube-host-upgrade-list"}
            /\ ghost' = [ghost EXCEPT !.event = "callback",
                                      !.event_data = NoName,
                                      !.response = response]
            /\ UNCHANGED <<now, host_table, instance_table, shadow>>

(***************************************************************************)
(* SystemStabilizeStep and the timeout policy of the step kinds            *)
(***************************************************************************)
TimeoutMaxTicks == 60

\* timeout_in_secs each step kind passes to its base class.
StepTimeoutInSecs ==
    [n \in {"system-stabilize", "query-alarms", "query-sw-patches",
            "query-sw-patch-hosts", "query-fw-update-host", "query-upgrade",
            "query-kube-upgrade", "query-kube-versions",
            "query-kube-host-upgrade"} |-> 60]
    @@ [n \in {"disable-host-services", "enable-host-services"} |-> 180]
    @@ [n \in {"complete-upgrade", "wait-data-sync", "wait-alarms-clear"}
            |-> 300]
    @@ [n \in {"start-upgrade", "fw-update-abort-hosts", "apply-patches",
               "kube-upgrade-start", "kube-upgrade-cleanup",
               "kube-upgrade-complete", "kube-upgrade-download-images",
               "kube-upgrade-networking", "kube-host-upgrade-control-plane"}
            |-> 600]
    @@ [n \in {"lock-hosts", "reboot-hosts", "swact-hosts", "activate-upgrade",
               "start-instances", "stop-instances",
               "kube-host-upgrade-kubelet"} |-> 900]
    @@ [n \in {"unlock-hosts", "sw-patch-hosts", "migrate-instances"} |-> 1800]
    @@ [n \in {"upgrade-hosts", "fw-update-hosts"} |-> 3600]

StepKinds == DOMAIN StepTimeoutInSecs

SystemStabilizeStep_init(timeout_in_secs) ==
    [name |-> "system-stabilize", timeout_in_secs |-> timeout_in_secs]

SystemStabilizeStep_timeout_failed(stp) == <<FAILED, <<>>>>

SystemStabilizeStep_timeout(stp) == <<SUCCESS, <<>>>>

SystemStabilizeStep_apply(stp) == Outcome(stp, <<>>, 0, <<WAIT, <<>>>>)

SystemStabilizeStep_handle_event(stp, event, event_data) ==
    IF event = HOST_STATE_CHANGED
    THEN Outcome(stp, <<<<FAILED, <<"host", event_data,
                                    "changed state unexpectedly">>>>>>, 0, TRUE)
    ELSE IF event = INSTANCE_STATE_CHANGED
    THEN Outcome(stp, <<<<FAILED, <<"instance", event_data,
                                    "changed state unexpectedly">>>>>>, 0, TRUE)
    ELSE Outcome(stp, <<>>, 0, FALSE)

\* The timeout policy a step kind inherits when it does not define its own.
StrategyStep_timeout(stp) == <<FAILED, <<"timeout">>>>

\* system-stabilize is the one class that defines timeout().
step_timeout(stp) ==
    IF stp.name = "system-stabilize"
    THEN SystemStabilizeStep_timeout(stp)
    ELSE StrategyStep_timeout(stp)

(***************************************************************************)
(* Specification of a step that waits until an event completes it or its   *)
(* deadline expires.  system-stabilize is run in full; of the other kinds  *)
(* only the wait for the deadline is followed.                             *)
(***************************************************************************)
StabilizeEvents ==
    {HOST_STATE_CHANGED, INSTANCE_STATE_CHANGED, HOST_AUDIT, INSTANCE_AUDIT,
     HOST_LOCK_FAILED, HOST_UNLOCK_FAILED}

InitTimeout ==
    /\ now = StartMs
    /\ host_table = <<>>
    /\ instance_table = <<>>
    /\ strategy = <<>>
    /\ \E n \in StepKinds :
           step = [name |-> n, timeout_in_secs |-> StepTimeoutInSecs[n]]
    /\ stage = NewStage
    /\ pending = {}
    /\ calls = 0
    /\ shadow = <<>>
    /\ ghost = [event |-> NoName, applied_at |-> 0, ret |-> FALSE]

TimeoutAdvance ==
    /\ stage.result = WAIT
    /\ now < StartMs + TimeoutMaxTicks * PollTickMs
    /\ now' = now + PollTickMs
    /\ UNCHANGED <<host_table, instance_table, step, stage, strategy, pending,
                   calls, shadow, ghost>>

StabilizeApply ==
    /\ step.name = "system-stabilize"
    /\ stage.result = INITIAL
    /\ SetCur(RunApply(Cur, SystemStabilizeStep_apply(step)))
    /\ ghost' = [ghost EXCEPT !.event = "apply", !.applied_at = now]
    /\ UNCHANGED <<now, host_table, instance_table, strategy, pending, shadow>>

\* A step of another kind is applied and waits.
OtherStepWaits ==
    /\ step.name # "system-stabilize"
    /\ stage.result = INITIAL
    /\ stage' = stage_step_applied(stage, <<WAIT, <<>>>>)
    /\ ghost' = [ghost EXCEPT !.event = "apply", !.applied_at = now]
    /\ UNCHANGED <<now, host_table, instance_table, step, strategy, pending,
                   calls, shadow>>

StabilizeEvent ==
    \E event \in StabilizeEvents, event_data \in {"w-0", "i-0"} :
        LET out == SystemStabilizeStep_handle_event(step, event, event_data)
        IN  /\ step.name = "system-stabilize"
            /\ stage.result = WAIT
            /\ SetCur(RunEvent(Cur, out))
            /\ ghost' = [ghost EXCEPT !.event = event, !.ret = out.ret]
            /\ UNCHANGED <<now, host_table, instance_table, strategy, pending,
                           shadow>>

\* The controller finds the deadline expired and asks the step's policy.
StageTimeout ==
    /\ stage.result = WAIT
    /\ now - ghost.applied_at >= step.timeout_in_secs * 1000
    /\ stage' = stage_step_complete(stage, step_timeout(step)[1],
                                    step_timeout(step)[2])
    /\ ghost' = [ghost EXCEPT !.event = "timeout"]
    /\ UNCHANGED <<now, host_table, instance_table, step, strategy, pending,
                   calls, shadow>>

NextTimeout ==
    \/ TimeoutAdvance
    \/ StabilizeApply
    \/ OtherStepWaits
    \/ StabilizeEvent
    \/ StageTimeout

SpecTimeout == InitTimeout /\ [][NextTimeout]_vars

\* The same with the scheduling the controller provides: time passes while a
\* step waits, and the controller's tick resolves a step whose deadline has
\* expired.
SpecTimeoutFair ==
    /\ SpecTimeout
    /\ WF_vars(TimeoutAdvance)
    /\ WF_vars(StageTimeout)

(***************************************************************************)
(* StartInstancesStep                                                      *)
(***************************************************************************)
\* instance.name of the instance with the given uuid.
StartInstancesStep_init(instance_uuids) ==
    [name |-> "start-instances",
     instances |-> instance_uuids,
     instance_names |-> [i \in 1..Len(instance_uuids) |->
                            instance_name(instance_uuids[i])],
     instance_uuids |-> instance_uuids]

StartInstancesStep_from_dict(data, itbl) ==
    LET live == SelectSeq(data.entity_uuids,
                          LAMBDA u : instance_table_has(itbl, u))
    IN  [name |-> data.name,
         instances |-> live,
         instance_names |-> [i \in 1..Len(live) |-> instance_name(live[i])],
         instance_uuids |-> data.entity_uuids]

StartInstancesStep_as_dict(stp) ==
    [name |-> stp.name,
     entity_type |-> "instances",
     entity_names |-> stp.instance_names,
     entity_uuids |-> stp.instance_uuids]

StartInstancesStep_total_instances_unlocked_enabled(stp, itbl) ==
    IF \E i \in 1..Len(stp.instance_uuids) :
           ~instance_table_has(itbl, stp.instance_uuids[i])
    THEN -1
    ELSE Cardinality({i \in 1..Len(stp.instance_uuids) :
             instance_is_enabled(itbl[stp.instance_uuids[i]])})

StartInstancesStep_apply_always_calls(stp, itbl, op) ==
    Outcome(stp, <<>>, 1, operation_result(op))

StartInstancesStep_apply(stp, itbl, op) ==
    IF Len(stp.instance_uuids)
           = StartInstancesStep_total_instances_unlocked_enabled(stp, itbl)
    THEN Outcome(stp, <<>>, 0, <<SUCCESS, <<>>>>)
    ELSE Outcome(stp, <<>>, 1, operation_result(op))

StartInstancesStep_handle_event(stp, itbl, event, event_data) ==
    IF event \in {INSTANCE_STATE_CHANGED, INSTANCE_AUDIT}
    THEN LET total == StartInstancesStep_total_instances_unlocked_enabled(stp, itbl)
         IN  IF total = -1
             THEN Outcome(stp, <<<<FAILED, <<"instance no longer exists">>>>>>,
                          0, TRUE)
             ELSE IF total = Len(stp.instance_uuids)
             THEN Outcome(stp, <<<<SUCCESS, <<>>>>>>, 0, TRUE)
             ELSE Outcome(stp, <<>>, 0, FALSE)
    ELSE Outcome(stp, <<>>, 0, FALSE)

(***************************************************************************)
(* Specification of the apply of the steps that look at the fleet before   *)
(* they call a director: unlock-hosts, lock-hosts, start-instances,        *)
(* stop-instances and migrate-instances, on every fleet.                   *)
(***************************************************************************)
InitStart ==
    /\ now = StartMs
    /\ host_table \in [HostNames -> {[present |-> TRUE, admin |-> "unlocked",
                                       oper |-> "enabled"]}]
    /\ instance_table \in [InstanceUuids -> InstanceRows]
    /\ \E uuids \in InstanceLists : step = StartInstancesStep_init(uuids)
    /\ stage = NewStage
    /\ strategy = <<>>
    /\ pending = <<>>
    /\ calls = 0
    /\ shadow = <<>>
    /\ ghost = [event |-> NoName]

InitFleet == InitUnlock \/ InitLock \/ InitInstances \/ InitStart

FleetUnlockApply == step.name = "unlock-hosts" /\ UnlockApply

FleetLockApply == step.name = "lock-hosts" /\ LockApply

FleetInstancesApply ==
    step.name \in {"migrate-instances", "stop-instances"} /\ InstancesApply

FleetStartApply ==
    \E op \in OperationStates :
        /\ step.name = "start-instances"
        /\ stage.result = INITIAL
        /\ SetCur(RunApply(Cur, StartInstancesStep_apply(step, instance_table,
                                                         op)))
        /\ ghost' = [ghost EXCEPT !.event = "apply"]
        /\ UNCHANGED <<now, host_table, instance_table, strategy, pending,
                       shadow>>

FleetStartEvent ==
    \E event \in {INSTANCE_STATE_CHANGED, INSTANCE_AUDIT, HOST_AUDIT} :
        /\ step.name = "start-instances"
        /\ stage.result = WAIT
        /\ SetCur(RunEvent(Cur, StartInstancesStep_handle_event(
                               step, instance_table, event, NoName)))
        /\ ghost' = [ghost EXCEPT !.event = event]
        /\ UNCHANGED <<now, host_table, instance_table, strategy, pending,
                       shadow>>

\* The tables change before the step is applied.
FleetHostChange ==
    /\ step.name \in {"unlock-hosts", "lock-hosts"}
    /\ stage.result = INITIAL
    /\ (HostChange \/ HostDelete)

FleetInstanceChange ==
    /\ step.name \in {"start-instances", "stop-instances", "migrate-instances"}
    /\ stage.result \in {INITIAL, WAIT}
    /\ (InstanceChange \/ InstanceDelete)

NextFleet ==
    \/ FleetUnlockApply
    \/ FleetLockApply
    \/ FleetInstancesApply
    \/ FleetStartApply
    \/ FleetStartEvent
    \/ FleetHostChange
    \/ FleetInstanceChange

SpecFleet == InitFleet /\ [][NextFleet]_vars

(***************************************************************************)
(* UpgradeHostsStep, DisableHostServicesStep and EnableHostServicesStep    *)
(***************************************************************************)
MaxReruns == 1

Services == {"compute", "network"}

HOST_SERVICE_STATE_ENABLED == "enabled"
HOST_SERVICE_STATE_DISABLED == "disabled"

Releases == {"21.05", "21.12"}

ServiceHostRows ==
    [present : {TRUE},
     host_service_state : [Services -> {HOST_SERVICE_STATE_ENABLED,
                                        HOST_SERVICE_STATE_DISABLED}]]

UpgradeHostRows ==
    [present : {TRUE}, online : BOOLEAN, target_load : Releases,
     software_load : Releases]

host_service_state(host, service) == host.host_service_state[service]

host_is_online(host) == host.online

UpgradeHostsStep_init(host_names) ==
    [name |-> "upgrade-hosts", host_names |-> host_names, wait_time |-> 0]

\* A count that takes a host that left the table for a host not upgraded.
UpgradeHostsStep_total_hosts_upgraded_skipping_absent(stp, tbl, strat) ==
    Cardinality({i \in 1..Len(stp.host_names) :
        LET host == host_table_get(tbl, stp.host_names[i])
        IN  /\ host # NoHost
            /\ host_is_online(host)
            /\ host.target_load = strat.nfvi_upgrade.to_release
            /\ host.software_load = strat.nfvi_upgrade.to_release})

UpgradeHostsStep_total_hosts_upgraded(stp, tbl, strat) ==
    IF \E i \in 1..Len(stp.host_names) :
           host_table_get(tbl, stp.host_names[i]) = NoHost
    THEN -1
    ELSE Cardinality({i \in 1..Len(stp.host_names) :
             LET host == host_table_get(tbl, stp.host_names[i])
             IN  /\ host_is_online(host)
                 /\ host.target_load = strat.nfvi_upgrade.to_release
                 /\ host.software_load = strat.nfvi_upgrade.to_release})

UpgradeHostsStep_apply(stp, op) == Outcome(stp, <<>>, 1, operation_result(op))

\* entity_uuids, the uuids of the host objects, is written and not read
\* back.
UpgradeHostsStep_as_dict(stp) ==
    [name |-> stp.name, entity_type |-> "hosts",
     entity_names |-> stp.host_names]

UpgradeHostsStep_from_dict(data, tbl) ==
    [name |-> data.name, host_names |-> data.entity_names, wait_time |-> 0]

UpgradeHostsStep_handle_event(stp, tbl, strat, now_ms, event, event_data) ==
    IF event = HOST_UPGRADE_FAILED
    THEN IF event_data # NoName /\ event_data \in SeqToSet(stp.host_names)
         THEN Outcome(stp, <<<<FAILED, <<"host upgrade failed">>>>>>, 0, TRUE)
         ELSE Outcome(stp, <<>>, 0, FALSE)
    ELSE IF event = HOST_AUDIT
    THEN LET waited == IF stp.wait_time = 0
                       THEN [stp EXCEPT !.wait_time = now_ms] ELSE stp
             secs_expired == (now_ms - waited.wait_time) \div 1000
             total == UpgradeHostsStep_total_hosts_upgraded(stp, tbl, strat)
         IN  IF 120 <= secs_expired
             THEN IF total = -1
                  THEN Outcome(waited, <<<<FAILED, <<"host no longer exists">>>>>>,
                               0, TRUE)
                  ELSE IF total = Len(stp.host_names)
                  THEN Outcome(waited, <<<<SUCCESS, <<>>>>>>, 0, TRUE)
                  ELSE Outcome(waited, <<>>, 0, FALSE)
             ELSE Outcome(waited, <<>>, 0, FALSE)
    ELSE Outcome(stp, <<>>, 0, FALSE)

DisableHostServicesStep_init(host_names, service) ==
    [name |-> "disable-host-services", hosts |-> host_names,
     host_names |-> host_names, service |-> service]

DisableHostServicesStep_total_hosts_services_disabled(stp, tbl) ==
    IF \E i \in 1..Len(stp.host_names) :
           host_table_get(tbl, stp.host_names[i]) = NoHost
    THEN -1
    ELSE Cardinality({i \in 1..Len(stp.host_names) :
             HOST_SERVICE_STATE_DISABLED
                 = host_service_state(host_table_get(tbl, stp.host_names[i]),
                                      stp.service)})

DisableHostServicesStep_apply(stp, op) ==
    Outcome(stp, <<>>, 1, operation_result(op))

DisableHostServicesStep_handle_event(stp, tbl, event, event_data) ==
    IF event \in {HOST_STATE_CHANGED, HOST_AUDIT}
    THEN LET total == DisableHostServicesStep_total_hosts_services_disabled(
                          stp, tbl)
         IN  IF total = -1
             THEN Outcome(stp, <<<<FAILED, <<"host no longer exists">>>>>>,
                          0, TRUE)
             ELSE IF total = Len(stp.host_names)
             THEN Outcome(stp, <<<<SUCCESS, <<>>>>>>, 0, TRUE)
             ELSE Outcome(stp, <<>>, 0, FALSE)
    ELSE IF event = DISABLE_HOST_SERVICES_FAILED
    THEN IF event_data # NoName /\ event_data \in SeqToSet(stp.host_names)
         THEN Outcome(stp, <<<<FAILED, <<"disable host services failed">>>>>>,
                      0, TRUE)
         ELSE Outcome(stp, <<>>, 0, FALSE)
    ELSE Outcome(stp, <<>>, 0, FALSE)

EnableHostServicesStep_init(host_names, service) ==
    [name |-> "enable-host-services", host_names |-> host_names,
     service |-> service]

EnableHostServicesStep_total_hosts_services_enabled(stp, tbl) ==
    IF \E i \in 1..Len(stp.host_names) :
           host_table_get(tbl, stp.host_names[i]) = NoHost
    THEN -1
    ELSE Cardinality({i \in 1..Len(stp.host_names) :
             HOST_SERVICE_STATE_ENABLED
                 = host_service_state(host_table_get(tbl, stp.host_names[i]),
                                      stp.service)})

EnableHostServicesStep_apply(stp, op) ==
    Outcome(stp, <<>>, 1, operation_result(op))

EnableHostServicesStep_handle_event(stp, tbl, event, event_data) ==
    IF event \in {HOST_STATE_CHANGED, HOST_AUDIT}
    THEN LET total == EnableHostServicesStep_total_hosts_services_enabled(
                          stp, tbl)
         IN  IF total = -1
             THEN Outcome(stp, <<<<FAILED, <<"host no longer exists">>>>>>,
                          0, TRUE)
             ELSE IF total = Len(stp.host_names)
             THEN Outcome(stp, <<<<SUCCESS, <<>>>>>>, 0, TRUE)
             ELSE Outcome(stp, <<>>, 0, FALSE)
    ELSE IF event = ENABLE_HOST_SERVICES_FAILED
    THEN IF event_data # NoName /\ event_data \in SeqToSet(stp.host_names)
         THEN Outcome(stp, <<<<FAILED, <<"enable host services failed">>>>>>,
                      0, TRUE)
         ELSE Outcome(stp, <<>>, 0, FALSE)
    ELSE Outcome(stp, <<>>, 0, FALSE)

(***************************************************************************)
(* Specification of an upgrade-hosts, disable-host-services or             *)
(* enable-host-services step: applied, fed events while the host table     *)
(* changes, and applied again by a resume after it completed successfully. *)
(***************************************************************************)
RerunHostLists == {<<>>, <<"w-0">>, <<"w-0", "w-1">>}

RerunHostRows ==
    IF step.name = "upgrade-hosts" THEN UpgradeHostRows ELSE ServiceHostRows

InitRerun ==
    /\ now = StartMs
    /\ instance_table = <<>>
    /\ \E names \in RerunHostLists, service \in Services :
           \/ /\ step = UpgradeHostsStep_init(names)
              /\ host_table \in [HostNames -> UpgradeHostRows]
              /\ service = "compute"
           \/ /\ step = DisableHostServicesStep_init(names, service)
              /\ host_table \in [HostNames -> ServiceHostRows]
           \/ /\ step = EnableHostServicesStep_init(names, service)
              /\ host_table \in [HostNames -> ServiceHostRows]
    /\ strategy = [nfvi_upgrade |-> [to_release |-> "21.12"]]
    /\ stage = NewStage
    /\ pending = <<>>
    /\ calls = 0
    /\ shadow = <<>>
    /\ ghost = [event |-> NoName, event_data |-> NoName, ret |-> NoName,
                reruns |-> 0, audited |-> FALSE, first_audit |-> 0,
                loads |-> 0]

RerunStep_apply(stp, op) ==
    IF stp.name = "upgrade-hosts" THEN UpgradeHostsStep_apply(stp, op)
    ELSE IF stp.name = "disable-host-services"
    THEN DisableHostServicesStep_apply(stp, op)
    ELSE EnableHostServicesStep_apply(stp, op)

RerunStep_handle_event(stp, tbl, strat, now_ms, event, event_data) ==
    IF stp.name = "upgrade-hosts"
    THEN UpgradeHostsStep_handle_event(stp, tbl, strat, now_ms, event,
                                       event_data)
    ELSE IF stp.name = "disable-host-services"
    THEN DisableHostServicesStep_handle_event(stp, tbl, event, event_data)
    ELSE EnableHostServicesStep_handle_event(stp, tbl, event, event_data)

\* Only upgrade-hosts reads the clock.
RerunAdvance ==
    /\ step.name = "upgrade-hosts"
    /\ stage.result = WAIT
    /\ now < StartMs + MaxTicks * PollTickMs
    /\ now' = now + PollTickMs
    /\ UNCHANGED <<host_table, instance_table, step, stage, strategy, pending,
                   calls, shadow, ghost>>

\* The step can still be run: it is not applied yet, waits, or completed
\* successfully and can be resumed.
RerunLive ==
    \/ stage.result \in {INITIAL, WAIT}
    \/ stage.result = SUCCESS /\ ghost.reruns < MaxReruns

RerunHostChange ==
    \E h \in HostNames, row \in RerunHostRows :
        /\ RerunLive
        /\ stage.result # INITIAL
        /\ host_table[h].present
        /\ host_table[h] # row
        /\ host_table' = [host_table EXCEPT ![h] = row]
        /\ UNCHANGED <<now, instance_table, step, stage, strategy, pending,
                       calls, shadow, ghost>>

RerunHostDelete ==
    \E h \in HostNames :
        /\ RerunLive
        /\ host_table[h].present
        /\ host_table' = [host_table EXCEPT ![h].present = FALSE]
        /\ UNCHANGED <<now, instance_table, step, stage, strategy, pending,
                       calls, shadow, ghost>>

RerunApply ==
    \E op \in OperationStates :
        /\ stage.result = INITIAL
        /\ SetCur(RunApply(Cur, RerunStep_apply(step, op)))
        /\ ghost' = [ghost EXCEPT !.event = "apply", !.event_data = NoName,
                                  !.ret = NoName]
        /\ UNCHANGED <<now, host_table, instance_table, strategy, pending,
                       shadow>>

RerunDispatch(event, event_data) ==
    LET out == RerunStep_handle_event(step, host_table, strategy, now, event,
                                      event_data)
    IN  /\ stage.result = WAIT
        /\ SetCur(RunEvent(Cur, out))
        /\ ghost' = [ghost EXCEPT
               !.event = event, !.event_data = event_data, !.ret = out.ret,
               !.audited = @ \/ event = HOST_AUDIT,
               !.first_audit = IF event = HOST_AUDIT /\ ~ghost.audited
                               THEN now ELSE @]
        /\ UNCHANGED <<now, host_table, instance_table, strategy, pending,
                       shadow>>

RerunHostAudit == RerunDispatch(HOST_AUDIT, NoName)

RerunHostStateChanged == RerunDispatch(HOST_STATE_CHANGED, NoName)

\* The failure event of the step's own operation, about any host.
RerunStep_failed_event(stp) ==
    IF stp.name = "upgrade-hosts" THEN HOST_UPGRADE_FAILED
    ELSE IF stp.name = "disable-host-services"
    THEN DISABLE_HOST_SERVICES_FAILED
    ELSE ENABLE_HOST_SERVICES_FAILED

RerunFailedEvent ==
    \E h \in HostNames : RerunDispatch(RerunStep_failed_event(step), h)

\* An event the step has no branch for.
RerunOtherEvent == RerunDispatch(HOST_LOCK_FAILED, "w-0")

\* The strategy is written out and read back while upgrade-hosts waits;
\* the host-services steps handle an event by their targets' names and the
\* host table alone.
RerunLoad ==
    /\ step.name = "upgrade-hosts"
    /\ stage.result = WAIT
    /\ ghost.loads < MaxRehydrations
    /\ step' = UpgradeHostsStep_from_dict(UpgradeHostsStep_as_dict(step),
                                          host_table)
    /\ ghost' = [ghost EXCEPT !.event = "load", !.event_data = NoName,
                              !.ret = NoName, !.loads = @ + 1]
    /\ UNCHANGED <<now, host_table, instance_table, stage, strategy, pending,
                   calls, shadow>>

\* A resume runs apply of the step again after it completed successfully.
RerunResume ==
    \E op \in OperationStates :
        LET out == RerunStep_apply(step, op)
        IN  /\ stage.result = SUCCESS
            /\ ghost.reruns < MaxReruns
            /\ step' = out.step
            /\ stage' = stage_step_applied(NewStage, out.ret)
            /\ calls' = calls + out.ncalls
            /\ ghost' = [ghost EXCEPT !.event = "apply", !.event_data = NoName,
                                      !.ret = NoName, !.reruns = @ + 1]
            /\ UNCHANGED <<now, host_table, instance_table, strategy, pending,
                           shadow>>

NextRerun ==
    \/ RerunAdvance
    \/ RerunHostChange
    \/ RerunHostDelete
    \/ RerunApply
    \/ RerunHostAudit
    \/ RerunHostStateChanged
    \/ RerunFailedEvent
    \/ RerunOtherEvent
    \/ RerunLoad
    \/ RerunResume

SpecRerun == InitRerun /\ [][NextRerun]_vars

(***************************************************************************)
(* The steps that issue one driver request in apply and decide in its      *)
(* completion callback: QuerySwPatchesStep, QuerySwPatchHostsStep,         *)
(* QueryUpgradeStep, ApplySwPatchesStep, QueryKubeUpgradeStep,             *)
(* QueryKubeVersionsStep, QueryKubeHostUpgradeStep, KubeUpgradeCleanupStep *)
(***************************************************************************)
\* response['result-data'] of a completed request.
CallbackData == {"data-a", "data-b"}

\* response['reason'] of a request that did not complete.
CallbackReasons ==
    {<<>>, <<"connection refused">>, <<"sysinv returned 500">>}

CallbackResponses ==
    [completed : {TRUE}, result_data : CallbackData, reason : {<<>>}]
        \cup [completed : {FALSE}, result_data : {NoName},
              reason : CallbackReasons]

PatchLists == {<<>>, <<"PATCH_0001">>, <<"PATCH_0001", "PATCH_0002">>}

\* The strategy fields the callbacks store into.
NewWorkspace(prior) ==
    [nfvi_sw_patches |-> prior,
     nfvi_sw_patch_hosts |-> prior,
     nfvi_upgrade |-> prior,
     nfvi_kube_upgrade |-> prior,
     nfvi_kube_versions_list |-> prior,
     nfvi_kube_host_upgrade_list |-> prior]

QuerySwPatchesStep_init == [name |-> "query-sw-patches"]

QuerySwPatchesStep_query_sw_patches_callback(stp, strat, response) ==
    IF response.completed
    THEN AlarmOutcome(stp,
                      [strat EXCEPT !.nfvi_sw_patches = response.result_data],
                      <<<<SUCCESS, <<>>>>>>, 0, TRUE)
    ELSE AlarmOutcome(stp, strat, <<<<FAILED, <<>>>>>>, 0, TRUE)

QuerySwPatchHostsStep_init == [name |-> "query-sw-patch-hosts"]

QuerySwPatchHostsStep_query_hosts_callback(stp, strat, response) ==
    IF response.completed
    THEN AlarmOutcome(stp,
                      [strat EXCEPT !.nfvi_sw_patch_hosts = response.result_data],
                      <<<<SUCCESS, <<>>>>>>, 0, TRUE)
    ELSE AlarmOutcome(stp, strat, <<<<FAILED, <<>>>>>>, 0, TRUE)

QueryUpgradeStep_init == [name |-> "query-upgrade"]

QueryUpgradeStep_get_upgrade_callback(stp, strat, response) ==
    IF response.completed
    THEN AlarmOutcome(stp,
                      [strat EXCEPT !.nfvi_upgrade = response.result_data],
                      <<<<SUCCESS, <<>>>>>>, 0, TRUE)
    ELSE AlarmOutcome(stp, strat, <<<<FAILED, <<>>>>>>, 0, TRUE)

ApplySwPatchesStep_init(patches_to_apply) ==
    [name |-> "apply-patches", patches_to_apply |-> patches_to_apply]

ApplySwPatchesStep_api_callback(stp, strat, response) ==
    IF response.completed
    THEN AlarmOutcome(stp,
                      [strat EXCEPT !.nfvi_sw_patches = response.result_data],
                      <<<<SUCCESS, <<>>>>>>, 0, TRUE)
    ELSE AlarmOutcome(stp, strat, <<<<FAILED, response.reason>>>>, 0, TRUE)

QueryKubeUpgradeStep_init == [name |-> "query-kube-upgrade"]

QueryKubeUpgradeStep_get_kube_upgrade_callback(stp, strat, response) ==
    IF response.completed
    THEN AlarmOutcome(stp,
                      [strat EXCEPT !.nfvi_kube_upgrade = response.result_data],
                      <<<<SUCCESS, <<>>>>>>, 0, TRUE)
    ELSE AlarmOutcome(stp, strat, <<<<FAILED, response.reason>>>>, 0, TRUE)

QueryKubeVersionsStep_init == [name |-> "query-kube-versions"]

QueryKubeVersionsStep_query_callback(stp, strat, response) ==
    IF response.completed
    THEN AlarmOutcome(stp,
                      [strat EXCEPT !.nfvi_kube_versions_list
                                        = response.result_data],
                      <<<<SUCCESS, <<>>>>>>, 0, TRUE)
    ELSE AlarmOutcome(stp, strat, <<<<FAILED, response.reason>>>>, 0, TRUE)

QueryKubeHostUpgradeStep_init == [name |-> "query-kube-host-upgrade"]

QueryKubeHostUpgradeStep_get_kube_host_upgrade_list_callback(stp, strat, response) ==
    IF response.completed
    THEN AlarmOutcome(stp,
                      [strat EXCEPT !.nfvi_kube_host_upgrade_list
                                        = response.result_data],
                      <<<<SUCCESS, <<>>>>>>, 0, TRUE)
    ELSE AlarmOutcome(stp, strat, <<<<FAILED, response.reason>>>>, 0, TRUE)

KubeUpgradeCleanupStep_init ==
    [name |-> "kube-upgrade-cleanup", success_state |-> NoName,
     fail_state |-> NoName, wait_time |-> 0, query_inprogress |-> FALSE]

KubeUpgradeCleanupStep_response_callback(stp, strat, response) ==
    IF response.completed
    THEN AlarmOutcome(stp, [strat EXCEPT !.nfvi_kube_upgrade = NoName],
                      <<<<SUCCESS, <<>>>>>>, 0, TRUE)
    ELSE AlarmOutcome(stp, strat, <<<<FAILED, response.reason>>>>, 0, TRUE)

\* apply() of each of these steps: one driver request, then WAIT.
CallbackStep_apply(stp) == Outcome(stp, <<>>, 1, <<WAIT, <<>>>>)

CallbackStep_callback(stp, strat, response) ==
    CASE stp.name = "query-sw-patches" ->
             QuerySwPatchesStep_query_sw_patches_callback(stp, strat, response)
      [] stp.name = "query-sw-patch-hosts" ->
             QuerySwPatchHostsStep_query_hosts_callback(stp, strat, response)
      [] stp.name = "query-upgrade" ->
             QueryUpgradeStep_get_upgrade_callback(stp, strat, response)
      [] stp.name = "apply-patches" ->
             ApplySwPatchesStep_api_callback(stp, strat, response)
      [] stp.name = "query-kube-upgrade" ->
             QueryKubeUpgradeStep_get_kube_upgrade_callback(stp, strat, response)
      [] stp.name = "query-kube-versions" ->
             QueryKubeVersionsStep_query_callback(stp, strat, response)
      [] stp.name = "query-kube-host-upgrade" ->
             QueryKubeHostUpgradeStep_get_kube_host_upgrade_list_callback(
                 stp, strat, response)
      [] stp.name = "kube-upgrade-cleanup" ->
             KubeUpgradeCleanupStep_response_callback(stp, strat, response)

(***************************************************************************)
(* Specification of a step that decides in the completion callback of the  *)
(* request it issued.                                                      *)
(***************************************************************************)
CallbackSteps ==
    {QuerySwPatchesStep_init, QuerySwPatchHostsStep_init, QueryUpgradeStep_init,
     QueryKubeUpgradeStep_init, QueryKubeVersionsStep_init,
     QueryKubeHostUpgradeStep_init, KubeUpgradeCleanupStep_init}
        \cup {ApplySwPatchesStep_init(patches) : patches \in PatchLists}

InitCallback ==
    /\ now = StartMs
    /\ host_table = <<>>
    /\ instance_table = <<>>
    /\ step \in CallbackSteps
    /\ stage = NewStage
    /\ \E prior \in {NoName} \cup CallbackData : strategy = NewWorkspace(prior)
    /\ pending = {}
    /\ calls = 0
    /\ shadow = <<>>
    /\ ghost = [event |-> NoName, response |-> NoResponse]

CallbackApply ==
    /\ stage.result = INITIAL
    /\ SetCur(RunApply(Cur, CallbackStep_apply(step)))
    /\ pending' = {step.name}
    /\ ghost' = [ghost EXCEPT !.event = "apply"]
    /\ UNCHANGED <<now, host_table, instance_table, strategy, shadow>>

\* The driver completes the request.
CallbackDeliver ==
    \E response \in CallbackResponses :
        LET out == CallbackStep_callback(step, strategy, response)
        IN  /\ pending # {}
            /\ pending' = {}
            /\ step' = out.step
            /\ strategy' = out.strategy
            /\ stage' = stage_step_completes(stage, out.completes)
            /\ ghost' = [ghost EXCEPT !.event = "callback",
                                      !.response = response]
            /\ UNCHANGED <<now, host_table, instance_table, calls, shadow>>

NextCallback ==
    \/ CallbackApply
    \/ CallbackDeliver

SpecCallback == InitCallback /\ [][NextCallback]_vars

\* lock-hosts while the instances stay as they are.
HostEventsLock ==
    \/ LockApply
    \/ LockHostAudit
    \/ LockHostStateChanged
    \/ LockHostLockFailed
    \/ LockOtherEvent
    \/ HostChange
    \/ HostDelete
    \/ LockAdvance

\* upgrade-hosts and the host-services steps without a resume.
HostEventsRerun ==
    \/ RerunAdvance
    \/ RerunHostChange
    \/ RerunHostDelete
    \/ RerunApply
    \/ RerunHostAudit
    \/ RerunHostStateChanged
    \/ RerunFailedEvent
    \/ RerunOtherEvent
    \/ RerunLoad

(***************************************************************************)
(* RebootHostsStep, SwactHostsStep and FwUpdateAbortHostsStep: the         *)
(* director is called once by apply; reboot-hosts and swact-hosts then     *)
(* complete on the audit that finds 60 s and 120 s passed since the first  *)
(* audit, fw-update-abort-hosts on the first audit.                        *)
(***************************************************************************)
HOST_REBOOT_FAILED == "host-reboot-failed"
HOST_SWACT_FAILED == "host-swact-failed"
HOST_FW_UPDATE_ABORT_FAILED == "host-fw-update-abort-failed"

RebootHostsStep_init(host_names) ==
    [name |-> "reboot-hosts", host_names |-> host_names, wait_time |-> 0]

RebootHostsStep_apply(stp, op) == Outcome(stp, <<>>, 1, operation_result(op))

RebootHostsStep_handle_event(stp, now_ms, event, event_data) ==
    IF event = HOST_REBOOT_FAILED
    THEN IF event_data # NoName /\ event_data \in SeqToSet(stp.host_names)
         THEN Outcome(stp, <<<<FAILED, <<"host reboot failed">>>>>>, 0, TRUE)
         ELSE Outcome(stp, <<>>, 0, FALSE)
    ELSE IF event = HOST_AUDIT
    THEN LET waited == IF stp.wait_time = 0
                       THEN [stp EXCEPT !.wait_time = now_ms] ELSE stp
             secs_expired == (now_ms - waited.wait_time) \div 1000
         IN  IF 60 <= secs_expired
             THEN Outcome(waited, <<<<SUCCESS, <<>>>>>>, 0, TRUE)
             ELSE Outcome(waited, <<>>, 0, TRUE)
    ELSE Outcome(stp, <<>>, 0, FALSE)

SwactHostsStep_init(host_names) ==
    [name |-> "swact-hosts", host_names |-> host_names, wait_time |-> 0]

SwactHostsStep_apply(stp, op) == Outcome(stp, <<>>, 1, operation_result(op))

SwactHostsStep_handle_event(stp, now_ms, event, event_data) ==
    IF event = HOST_SWACT_FAILED
    THEN IF event_data # NoName /\ event_data \in SeqToSet(stp.host_names)
         THEN Outcome(stp, <<<<FAILED, <<"host swact failed">>>>>>, 0, TRUE)
         ELSE Outcome(stp, <<>>, 0, FALSE)
    ELSE IF event = HOST_AUDIT
    THEN LET waited == IF stp.wait_time = 0
                       THEN [stp EXCEPT !.wait_time = now_ms] ELSE stp
             secs_expired == (now_ms - waited.wait_time) \div 1000
         IN  IF 120 <= secs_expired
             THEN Outcome(waited, <<<<SUCCESS, <<>>>>>>, 0, TRUE)
             ELSE Outcome(waited, <<>>, 0, TRUE)
    ELSE Outcome(stp, <<>>, 0, FALSE)

FwUpdateAbortHostsStep_apply(stp, op) ==
    Outcome(stp, <<>>, 1, operation_result(op))

FwUpdateAbortHostsStep_handle_event(stp, event, event_data) ==
    IF event = HOST_FW_UPDATE_ABORT_FAILED
    THEN IF event_data # NoName /\ event_data \in SeqToSet(stp.host_names)
         THEN Outcome(stp, <<<<FAILED, <<"device image update abort failed">>>>>>,
                      0, TRUE)
         ELSE Outcome(stp, <<>>, 0, FALSE)
    ELSE IF event = HOST_AUDIT
    THEN Outcome(stp, <<<<SUCCESS, <<>>>>>>, 0, TRUE)
    ELSE Outcome(stp, <<>>, 0, FALSE)

\* entity_uuids, the uuids of the host objects, is written and not read
\* back.
RebootHostsStep_as_dict(stp) ==
    [name |-> stp.name, entity_type |-> "hosts",
     entity_names |-> stp.host_names]

RebootHostsStep_from_dict(data, tbl) ==
    [name |-> data.name, host_names |-> data.entity_names, wait_time |-> 0]

SwactHostsStep_as_dict(stp) ==
    [name |-> stp.name, entity_type |-> "hosts",
     entity_names |-> stp.host_names]

SwactHostsStep_from_dict(data, tbl) ==
    [name |-> data.name, host_names |-> data.entity_names, wait_time |-> 0]

FwUpdateAbortHostsStep_as_dict(stp) ==
    [name |-> stp.name, entity_type |-> "hosts",
     entity_names |-> stp.host_names,
     hosts_completed |-> stp.host_completed]

FwUpdateAbortHostsStep_from_dict(data, tbl) ==
    LET live == SelectSeq(data.entity_names,
                          LAMBDA h : host_table_get(tbl, h) # NoHost)
    IN  [name |-> data.name, host_names |-> data.entity_names,
         wait_time |-> 0,
         host_completed |->
             [h \in SeqToSet(live) |-> data.hosts_completed[h]]]

TimedHostsStepNames == {"reboot-hosts", "swact-hosts", "fw-update-abort-hosts"}

TimedHostsStep_apply(stp, op) ==
    CASE stp.name = "reboot-hosts" -> RebootHostsStep_apply(stp, op)
      [] stp.name = "swact-hosts" -> SwactHostsStep_apply(stp, op)
      [] stp.name = "fw-update-abort-hosts" ->
             FwUpdateAbortHostsStep_apply(stp, op)

TimedHostsStep_handle_event(stp, now_ms, event, event_data) ==
    CASE stp.name = "reboot-hosts" ->
             RebootHostsStep_handle_event(stp, now_ms, event, event_data)
      [] stp.name = "swact-hosts" ->
             SwactHostsStep_handle_event(stp, now_ms, event, event_data)
      [] stp.name = "fw-update-abort-hosts" ->
             FwUpdateAbortHostsStep_handle_event(stp, event, event_data)

TimedHostsStep_as_dict(stp) ==
    CASE stp.name = "reboot-hosts" -> RebootHostsStep_as_dict(stp)
      [] stp.name = "swact-hosts" -> SwactHostsStep_as_dict(stp)
      [] stp.name = "fw-update-abort-hosts" ->
             FwUpdateAbortHostsStep_as_dict(stp)

TimedHostsStep_from_dict(data, tbl) ==
    CASE data.name = "reboot-hosts" -> RebootHostsStep_from_dict(data, tbl)
      [] data.name = "swact-hosts" -> SwactHostsStep_from_dict(data, tbl)
      [] data.name = "fw-update-abort-hosts" ->
             FwUpdateAbortHostsStep_from_dict(data, tbl)

\* The failure event of the step's own operation.
TimedHostsStep_failed_event(stp) ==
    CASE stp.name = "reboot-hosts" -> HOST_REBOOT_FAILED
      [] stp.name = "swact-hosts" -> HOST_SWACT_FAILED
      [] stp.name = "fw-update-abort-hosts" -> HOST_FW_UPDATE_ABORT_FAILED

InitTimedHosts ==
    /\ now = StartMs
    /\ host_table = [h \in HostNames |-> [present |-> TRUE]]
    /\ instance_table = <<>>
    /\ \E names \in {<<>>, <<"w-0">>} :
           step \in {RebootHostsStep_init(names), SwactHostsStep_init(names),
                     FwUpdateAbortHostsStep_init(names)}
    /\ strategy = <<>>
    /\ stage = NewStage
    /\ pending = <<>>
    /\ calls = 0
    /\ shadow = <<>>
    /\ ghost = [event |-> NoName, event_data |-> NoName, ret |-> NoName,
                loads |-> 0]

TimedHostsAdvance ==
    /\ stage.result = WAIT
    /\ now < StartMs + MaxTicks * PollTickMs
    /\ now' = now + PollTickMs
    /\ UNCHANGED <<host_table, instance_table, step, stage, strategy, pending,
                   calls, shadow, ghost>>

TimedHostsApply ==
    \E op \in OperationStates :
        /\ stage.result = INITIAL
        /\ SetCur(RunApply(Cur, TimedHostsStep_apply(step, op)))
        /\ ghost' = [ghost EXCEPT !.event = "apply", !.event_data = NoName,
                                  !.ret = NoName]
        /\ UNCHANGED <<now, host_table, instance_table, strategy, pending,
                       shadow>>

TimedHostsDispatch(event, event_data) ==
    LET out == TimedHostsStep_handle_event(step, now, event, event_data)
    IN  /\ stage.result = WAIT
        /\ SetCur(RunEvent(Cur, out))
        /\ ghost' = [ghost EXCEPT !.event = event, !.event_data = event_data,
                                  !.ret = out.ret]
        /\ UNCHANGED <<now, host_table, instance_table, strategy, pending,
                       shadow>>

TimedHostsHostAudit == TimedHostsDispatch(HOST_AUDIT, NoName)

TimedHostsFailedEvent ==
    \E h \in HostNames \cup {NoName} :
        TimedHostsDispatch(TimedHostsStep_failed_event(step), h)

\* Events the steps have no branch for.
TimedHostsOtherEvent ==
    \E event \in {HOST_STATE_CHANGED, HOST_LOCK_FAILED} :
        TimedHostsDispatch(event, "w-0")

\* A target host leaves the inventory.
TimedHostsHostDelete ==
    /\ stage.result = WAIT
    /\ ghost.loads < MaxRehydrations
    /\ HostDelete

\* The strategy is written out and read back while the step waits.
TimedHostsLoad ==
    /\ stage.result = WAIT
    /\ ghost.loads < MaxRehydrations
    /\ step' = TimedHostsStep_from_dict(TimedHostsStep_as_dict(step),
                                        host_table)
    /\ ghost' = [ghost EXCEPT !.event = "load", !.event_data = NoName,
                              !.ret = NoName, !.loads = @ + 1]
    /\ UNCHANGED <<now, host_table, instance_table, stage, strategy, pending,
                   calls, shadow>>

NextTimedHosts ==
    \/ TimedHostsHostDelete
    \/ TimedHostsLoad
    \/ TimedHostsAdvance
    \/ TimedHostsApply
    \/ TimedHostsHostAudit
    \/ TimedHostsFailedEvent
    \/ TimedHostsOtherEvent

(***************************************************************************)
(* AbstractHostsStrategyStep: the part of a step on a list of hosts that   *)
(* is serialized and rehydrated.                                           *)
(***************************************************************************)
AbstractHostsStrategyStep_init(step_name, host_names) ==
    [name |-> step_name,
     hosts |-> host_names,
     host_names |-> host_names,
     host_uuids |-> [i \in 1..Len(host_names) |-> host_uuid(host_names[i])]]

AbstractHostsStrategyStep_from_dict(data, tbl) ==
    LET live == SelectSeq(data.entity_names,
                          LAMBDA h : host_table_get(tbl, h) # NoHost)
    IN  [name |-> data.name,
         hosts |-> live,
         host_names |-> data.entity_names,
         host_uuids |-> [i \in 1..Len(live) |-> host_uuid(live[i])]]

AbstractHostsStrategyStep_as_dict(stp) ==
    [name |-> stp.name,
     entity_type |-> "hosts",
     entity_names |-> stp.host_names,
     entity_uuids |-> stp.host_uuids]

(***************************************************************************)
(* Specification of a step that is saved and loaded again while entities   *)
(* leave the tables.                                                       *)
(***************************************************************************)
InitSaved ==
    /\ now = StartMs
    /\ host_table = [h \in HostNames |->
                        [present |-> TRUE, admin |-> "unlocked",
                         oper |-> "enabled"]]
    /\ instance_table = [u \in InstanceUuids |->
                            [present |-> TRUE, host_name |-> "w-0",
                             admin |-> "locked", oper |-> "disabled"]]
    /\ \/ \E names \in UnlockHostLists \cup {<<"w-1">>, <<"w-1", "w-0">>} :
              step = AbstractHostsStrategyStep_init("unlock-hosts", names)
       \/ \E uuids \in InstanceLists \cup {<<"i-1">>, <<"i-1", "i-0">>} :
              step = StartInstancesStep_init(uuids)
    /\ stage = NewStage
    /\ strategy = <<>>
    /\ pending = <<>>
    /\ calls = 0
    /\ shadow = <<>>
    /\ ghost = [event |-> NoName, loads |-> 0]

SavedStep_as_dict(stp) ==
    IF stp.name = "start-instances"
    THEN StartInstancesStep_as_dict(stp)
    ELSE AbstractHostsStrategyStep_as_dict(stp)

SavedStep_from_dict(data, tbl, itbl) ==
    IF data.name = "start-instances"
    THEN StartInstancesStep_from_dict(data, itbl)
    ELSE AbstractHostsStrategyStep_from_dict(data, tbl)

\* A host or an instance leaves the inventory.
SavedEntityDelete ==
    /\ ghost.loads < MaxRehydrations
    /\ \/ HostDelete
       \/ InstanceDelete

\* The strategy is written out.
SavedSave ==
    /\ ghost.loads < MaxRehydrations
    /\ pending' = SavedStep_as_dict(step)
    /\ ghost' = [ghost EXCEPT !.event = "save"]
    /\ UNCHANGED <<now, host_table, instance_table, step, stage, strategy,
                   calls, shadow>>

\* The strategy is read back: the step is rebuilt from the dictionary.
SavedLoad ==
    /\ pending # <<>>
    /\ ghost.loads < MaxRehydrations
    /\ step' = SavedStep_from_dict(pending, host_table, instance_table)
    /\ ghost' = [ghost EXCEPT !.event = "load", !.loads = @ + 1]
    /\ UNCHANGED <<now, host_table, instance_table, stage, strategy, pending,
                   calls, shadow>>

NextSaved ==
    \/ SavedEntityDelete
    \/ SavedSave
    \/ SavedLoad

SpecSaved == InitSaved /\ [][NextSaved]_vars

(***************************************************************************)
(* The command line client (nfv_client/shell.py).  process_main is an      *)
(* operator from the command line, the environment and what the strategy   *)
(* command does to the exit status of the process and what it printed.     *)
(* In this specification the record held by step is the client process.    *)
(***************************************************************************)
MaxGiven == 1

AuthParams ==
    <<"os_auth_url", "os_project_name", "os_project_domain_name",
      "os_username", "os_password", "os_user_domain_name", "os_region_name",
      "os_interface">>

AuthNotGiven ==
    <<"Authentication URI not given", "Project name not given",
      "Project domain name not given", "Username not given",
      "User password not given", "User domain name not given",
      "Openstack region name not given", "Openstack interface not given">>

CmdAreas == {"patch-strategy", "upgrade-strategy", "fw-update-strategy",
             "kube-upgrade-strategy"}

Cmds == {"create", "delete", "apply", "abort", "show"}

\* What the strategy command does once it is called.
CmdBehaviours == {"returns", "raises", "interrupted"}

\* Sets of authentication parameters given: at most MaxGiven of them, or
\* all but at most MaxGiven.
GivenSets ==
    {S \in SUBSET SeqToSet(AuthParams) :
        \/ Cardinality(S) <= MaxGiven
        \/ Cardinality(SeqToSet(AuthParams) \ S) <= MaxGiven}

\* The option of a command that the parser requires: --to-version of
\* kube-upgrade-strategy create.  No other command knows the option.
CmdOptions == {"to_version"}

Argvs == [flags : GivenSets, cmd_area : CmdAreas \cup {"bogus"},
          cmd : Cmds \cup {"bogus"}, options : SUBSET CmdOptions]

\* parser.parse_args: an unknown command, an option the command does not
\* know and a required option that is absent end the process with status 2.
parse_args(argv) ==
    LET known == IF argv.cmd_area = "kube-upgrade-strategy" /\
                    argv.cmd = "create"
                 THEN {"to_version"} ELSE {}
        required == known
    IN  IF /\ argv.cmd_area \in CmdAreas
           /\ argv.cmd \in Cmds
           /\ argv.options \subseteq known
           /\ required \subseteq argv.options
        THEN [ok |-> TRUE, cmd_area |-> argv.cmd_area, cmd |-> argv.cmd,
              given |-> argv.flags]
        ELSE [ok |-> FALSE]

\* The index of the first authentication parameter that is None, 0 if none.
first_not_given(given) ==
    LET missing == {i \in 1..Len(AuthParams) : AuthParams[i] \notin given}
    IN  IF missing = {} THEN 0
        ELSE CHOOSE i \in missing : \A j \in missing : i <= j

\* The strategy command of the chosen area, or the ValueError of the
\* branches that follow the known commands.
run_command(args, behaviour) ==
    IF args.cmd_area \notin CmdAreas \/ args.cmd \notin Cmds
    THEN "raises"
    ELSE behaviour

process_main(argv, environ, behaviour) ==
    LET args == parse_args(argv)
    IN  IF ~args.ok
        THEN [exit_status |-> 2, output |-> "usage"]
        ELSE LET given == args.given \cup environ
                 i == first_not_given(given)
             IN  IF i # 0
                 THEN [exit_status |-> 0, output |-> AuthNotGiven[i]]
                 ELSE LET done == run_command(args, behaviour)
                      IN  IF done = "interrupted"
                          THEN [exit_status |-> 0,
                                output |-> "Keyboard Interrupt received."]
                          ELSE IF done = "raises"
                          THEN [exit_status |-> 1, output |-> "exception"]
                          ELSE [exit_status |-> 0, output |-> "strategy"]

InitShell ==
    /\ now = StartMs
    /\ host_table = <<>>
    /\ instance_table = <<>>
    /\ \E argv \in Argvs, environ \in GivenSets, behaviour \in CmdBehaviours :
           step = [name |-> "process_main", argv |-> argv, environ |-> environ,
                   behaviour |-> behaviour, running |-> TRUE,
                   exit_status |-> 0, output |-> NoName]
    /\ stage = <<>>
    /\ strategy = <<>>
    /\ pending = <<>>
    /\ calls = 0
    /\ shadow = <<>>
    /\ ghost = <<>>

ShellRun ==
    LET out == process_main(step.argv, step.environ, step.behaviour)
    IN  /\ step.name = "process_main"
        /\ step.running
        /\ step' = [step EXCEPT !.running = FALSE,
                                !.exit_status = out.exit_status,
                                !.output = out.output]
        /\ UNCHANGED <<now, host_table, instance_table, stage, strategy,
                       pending, calls, shadow, ghost>>

NextShell == ShellRun

SpecShell == InitShell /\ [][NextShell]_vars

(***************************************************************************)
(* Unlock retry scenario: unlock-hosts([w-0], retry_count, RETRY_DELAY)    *)
(* on a clock whose instants lie just below, at and above the retry delay. *)
(***************************************************************************)
ScenarioRetryCount == 2
ScenarioTickMs == 119500
ScenarioMaxTicks == 2

\* The instants of the scenario, as offsets from its start.
ScenarioOffsets ==
    {k * ScenarioTickMs + j * TickMs : k \in 0..ScenarioMaxTicks,
                                       j \in 0..ScenarioMaxTicks}

InitUnlockScenario ==
    /\ now = StartMs
    /\ host_table \in [HostNames -> HostRows]
    /\ host_is_locked(host_table["w-0"])
    /\ host_table["w-1"] = [present |-> TRUE, admin |-> "unlocked",
                            oper |-> "enabled"]
    /\ instance_table = <<>>
    /\ step = UnlockHostsStep_init(<<"w-0">>, ScenarioRetryCount, RETRY_DELAY)
    /\ stage = NewStage
    /\ strategy = <<>>
    /\ pending = <<>>
    /\ calls = 0
    /\ shadow = Machine(step, stage, calls)
    /\ ghost = NewGhost

ScenarioAdvance ==
    \E d \in ScenarioOffsets :
        /\ StartMs + d > now
        /\ now' = StartMs + d
        /\ UNCHANGED <<host_table, instance_table, step, stage, strategy,
                       pending, calls, shadow, ghost>>

NextUnlockScenario ==
    \/ UnlockApply
    \/ UnlockHostAudit
    \/ UnlockHostStateChanged
    \/ UnlockHostUnlockFailed
    \/ TargetHostChange
    \/ ScenarioAdvance

SpecUnlockScenario == InitUnlockScenario /\ [][NextUnlockScenario]_vars

(***************************************************************************)
(* A sw-patch-hosts step that is saved and loaded again while hosts leave  *)
(* the inventory.                                                          *)
(***************************************************************************)
SwPatchHostsStep_as_dict(stp) ==
    [name |-> stp.name,
     entity_type |-> "hosts",
     entity_names |-> stp.host_names,
     hosts_completed |-> stp.host_completed]

SwPatchHostsStep_from_dict(data, tbl) ==
    [name |-> data.name,
     host_names |-> data.entity_names,
     host_completed |->
         [h \in {n \in SeqToSet(data.entity_names) :
                    host_table_get(tbl, n) # NoHost} |-> data.hosts_completed[h]],
     query_inprogress |-> FALSE]

\* The hosts a completed query response reports as decided / as patched.
SwPatchReported(response, P(_)) ==
    {response.result_data[i].name : i \in
        {j \in 1..Len(response.result_data) : P(response.result_data[j])}}

InitSwPatchSaved ==
    /\ now = StartMs
    /\ host_table = [h \in HostNames |->
                        [present |-> TRUE, admin |-> "unlocked",
                         oper |-> "enabled"]]
    /\ instance_table = <<>>
    /\ strategy = <<>>
    /\ \E host_names \in SwPatchTargetLists :
           step = SwPatchHostsStep_init(host_names)
    /\ stage = NewStage
    /\ pending = {}
    /\ calls = 0
    /\ shadow = <<>>
    /\ ghost = [event |-> NoName, response |-> NoResponse, loads |-> 0,
                patched |-> {}, decided |-> {}]

\* The driver completes the outstanding query-hosts poll; the history keeps
\* which hosts a response has so far reported.
SwPatchSavedQueryCallback ==
    \E response \in SwPatchResponses :
        /\ "query-hosts" \in pending
        /\ SetCur(RunEvent(Cur, SwPatchHostsStep_query_hosts_callback(step,
                                                                     response)))
        /\ pending' = pending \ {"query-hosts"}
        /\ ghost' = [ghost EXCEPT
               !.event = "query-callback",
               !.response = response,
               !.patched = @ \cup SwPatchReported(response,
                   LAMBDA e : e.patch_current /\ ~e.patch_failed),
               !.decided = @ \cup SwPatchReported(response,
                   LAMBDA e : e.patch_current \/ e.patch_failed)]
        /\ UNCHANGED <<now, host_table, instance_table, strategy, shadow>>

SwPatchSavedHostDelete ==
    /\ ghost.loads < MaxRehydrations
    /\ HostDelete

\* The strategy is written out and read back; a poll in flight is lost.
SwPatchSavedLoad ==
    /\ ghost.loads < MaxRehydrations
    /\ stage.result = WAIT
    /\ step' = SwPatchHostsStep_from_dict(SwPatchHostsStep_as_dict(step),
                                          host_table)
    /\ pending' = {}
    /\ ghost' = [ghost EXCEPT !.event = "load", !.loads = @ + 1]
    /\ UNCHANGED <<now, host_table, instance_table, stage, strategy, calls,
                   shadow>>

NextSwPatchSaved ==
    \/ SwPatchApply
    \/ SwPatchHostAudit
    \/ SwPatchOtherEvent
    \/ SwPatchUpdateCallback
    \/ SwPatchSavedQueryCallback
    \/ SwPatchSavedHostDelete
    \/ SwPatchSavedLoad

SpecSwPatchSaved == InitSwPatchSaved /\ [][NextSwPatchSaved]_vars

(***************************************************************************)
(* Abort steps.  abort() builds the abort step from the live objects the   *)
(* step holds (self._hosts, self._instances); from_dict rebuilds those     *)
(* from the tables.                                                        *)
(***************************************************************************)
LockHostsStep_as_dict(stp) ==
    [name |-> stp.name,
     entity_type |-> "hosts",
     entity_names |-> stp.host_names,
     entity_uuids |-> [i \in 1..Len(stp.hosts) |-> host_uuid(stp.hosts[i])],
     wait_until_disabled |-> stp.wait_until_disabled]

LockHostsStep_from_dict(data, tbl) ==
    [name |-> data.name,
     hosts |-> SelectSeq(data.entity_names,
                         LAMBDA h : host_table_get(tbl, h) # NoHost),
     host_names |-> data.entity_names,
     wait_until_disabled |-> data.wait_until_disabled,
     wait_time |-> 0]

\* abort over the recorded names instead of the live host objects.
LockHostsStep_abort_by_names(stp) ==
    <<UnlockHostsStep_init(stp.host_names, 0, RETRY_DELAY)>>

LockHostsStep_abort(stp) == <<UnlockHostsStep_init(stp.hosts, 0, RETRY_DELAY)>>

StopInstancesStep_abort(stp) == <<StartInstancesStep_init(stp.instances)>>

DisableHostServicesStep_as_dict(stp) ==
    [name |-> stp.name,
     entity_type |-> "hosts",
     entity_names |-> stp.host_names,
     entity_uuids |-> [i \in 1..Len(stp.hosts) |-> host_uuid(stp.hosts[i])],
     entity_service |-> stp.service]

DisableHostServicesStep_from_dict(data, tbl) ==
    [name |-> data.name,
     hosts |-> SelectSeq(data.entity_names,
                         LAMBDA h : host_table_get(tbl, h) # NoHost),
     host_names |-> data.entity_names,
     service |-> data.entity_service]

DisableHostServicesStep_abort(stp) ==
    <<EnableHostServicesStep_init(stp.hosts, stp.service)>>

\* The abort() every other step inherits.
StrategyStep_abort(stp) == <<>>

step_abort(stp) ==
    IF stp.name = "lock-hosts" THEN LockHostsStep_abort(stp)
    ELSE IF stp.name = "stop-instances" THEN StopInstancesStep_abort(stp)
    ELSE IF stp.name = "disable-host-services"
    THEN DisableHostServicesStep_abort(stp)
    ELSE IF stp.name = "fw-update-hosts" THEN FwUpdateHostsStep_abort(stp)
    ELSE StrategyStep_abort(stp)

AbortLoadable == {"lock-hosts", "stop-instances", "disable-host-services"}

AbortStep_as_dict(stp) ==
    IF stp.name = "lock-hosts" THEN LockHostsStep_as_dict(stp)
    ELSE IF stp.name = "stop-instances" THEN StopInstancesStep_as_dict(stp)
    ELSE DisableHostServicesStep_as_dict(stp)

AbortStep_from_dict(data, tbl, itbl) ==
    IF data.name = "lock-hosts" THEN LockHostsStep_from_dict(data, tbl)
    ELSE IF data.name = "stop-instances"
    THEN StopInstancesStep_from_dict(data, itbl)
    ELSE DisableHostServicesStep_from_dict(data, tbl)

\* The entities in the tables.
LiveEntities ==
    {h \in HostNames : host_table[h].present}
        \cup {u \in InstanceUuids : instance_table[u].present}

InitAbort ==
    /\ now = StartMs
    /\ host_table = [h \in HostNames |->
                        [present |-> TRUE, admin |-> "unlocked",
                         oper |-> "enabled"]]
    /\ instance_table = [u \in InstanceUuids |->
                            [present |-> TRUE, host_name |-> "w-0",
                             admin |-> "locked", oper |-> "disabled"]]
    /\ \/ \E names \in LockHostLists, wud \in BOOLEAN :
              step = LockHostsStep_init(names, wud)
       \/ \E uuids \in InstanceLists :
              \/ step = StopInstancesStep_init(uuids, instance_table)
              \/ step = StartInstancesStep_init(uuids)
              \/ step = MigrateInstancesStep_init(uuids, instance_table)
       \/ \E names \in RerunHostLists, service \in Services :
              \/ step = DisableHostServicesStep_init(names, service)
              \/ step = EnableHostServicesStep_init(names, service)
       \/ \E names \in UnlockHostLists :
              \/ step = UnlockHostsStep_init(names, 0, RETRY_DELAY)
              \/ step = UpgradeHostsStep_init(names)
              \/ step = SwPatchHostsStep_init(names)
              \/ step = FwUpdateHostsStep_init(names)
    /\ stage = NewStage
    /\ strategy = <<>>
    /\ pending = <<>>
    /\ calls = 0
    /\ shadow = <<>>
    /\ ghost = [event |-> NoName, loads |-> 0, live |-> LiveEntities]

AbortEntityDelete ==
    /\ ghost.loads < MaxRehydrations
    /\ ghost.event # "abort"
    /\ \/ HostDelete
       \/ InstanceDelete

\* The strategy is written out and read back.
AbortLoad ==
    /\ ghost.loads < MaxRehydrations
    /\ ghost.event # "abort"
    /\ step.name \in AbortLoadable
    /\ step' = AbortStep_from_dict(AbortStep_as_dict(step), host_table,
                                   instance_table)
    /\ ghost' = [ghost EXCEPT !.event = "load", !.loads = @ + 1,
                              !.live = LiveEntities]
    /\ UNCHANGED <<now, host_table, instance_table, stage, strategy, pending,
                   calls, shadow>>

\* The stage asks the step for its abort steps.
AbortTaken ==
    /\ ghost.event # "abort"
    /\ pending' = step_abort(step)
    /\ ghost' = [ghost EXCEPT !.event = "abort"]
    /\ UNCHANGED <<now, host_table, instance_table, step, stage, strategy,
                   calls, shadow>>

NextAbort ==
    \/ AbortEntityDelete
    \/ AbortLoad
    \/ AbortTaken

SpecAbort == InitAbort /\ [][NextAbort]_vars

(***************************************************************************)
(* Specification of the steps that wait for hosts or instances to reach a  *)
(* state, while hosts and instances leave the inventory.                   *)
(***************************************************************************)
InitDrift ==
    \/ InitUnlock /\ step.retry_count = 0 /\ step.retry_delay = 0
    \/ /\ InitLock
       /\ instance_is_locked(instance_table["i-0"])
       /\ instance_is_disabled(instance_table["i-0"])
    \/ InitRerun
    \/ InitInstances /\ step.name = "stop-instances"
    \/ InitStart

DriftStart ==
    \/ FleetStartApply
    \/ FleetStartEvent
    \/ FleetInstanceChange

NextDrift ==
    \/ step.name = "unlock-hosts" /\ NextUnlock
    \/ step.name = "lock-hosts" /\ HostEventsLock
    \/ /\ step.name \in {"upgrade-hosts", "disable-host-services",
                         "enable-host-services"}
       /\ stage.result # SUCCESS
       /\ HostEventsRerun
    \/ step.name = "stop-instances" /\ NextInstances
    \/ step.name = "start-instances" /\ DriftStart

SpecDrift == InitDrift /\ [][NextDrift]_vars

(***************************************************************************)
(* UpgradeStartStep, UpgradeActivateStep and UpgradeCompleteStep           *)
(***************************************************************************)
UPGRADE_STATE_STARTING == "starting"

UPGRADE_STATE_STARTED == "started"

UPGRADE_STATE_ACTIVATING == "activating"

UPGRADE_STATE_ACTIVATION_COMPLETE == "activation-complete"

UpgradeStates ==
    {UPGRADE_STATE_STARTING, UPGRADE_STATE_STARTED, UPGRADE_STATE_ACTIVATING,
     UPGRADE_STATE_ACTIVATION_COMPLETE}

\* None in the place of an upgrade record: there is no upgrade.
NoUpgrade == [state |-> NoName]

\* response['result-data'] of an upgrade request.
UpgradeObjects == {NoUpgrade} \cup [state : UpgradeStates]

UpgradeResponses ==
    {[completed |-> FALSE, result_data |-> NoUpgrade, reason |-> <<>>]}
        \cup [completed : {TRUE}, result_data : UpgradeObjects,
              reason : {<<>>}]

\* obj.state; reading it of None raises.
upgrade_state_is(obj, state) == obj # NoUpgrade /\ obj.state = state

UpgradeStartStep_init ==
    [name |-> "start-upgrade", wait_time |-> 0, query_inprogress |-> FALSE]

UpgradeStartStep_start_upgrade_callback(stp, strat, response) ==
    IF response.completed
    THEN AlarmOutcome(stp, [strat EXCEPT !.nfvi_upgrade = response.result_data],
                      <<>>, {}, NoName)
    ELSE AlarmOutcome(stp, strat, <<<<FAILED, <<>>>>>>, {}, NoName)

\* With no upgrade record the comparison of its state raises and nothing
\* is completed.
UpgradeStartStep_get_upgrade_callback(stp, strat, response) ==
    LET stp2 == [stp EXCEPT !.query_inprogress = FALSE]
    IN  IF response.completed
        THEN LET strat2 == [strat EXCEPT !.nfvi_upgrade = response.result_data]
             IN  IF upgrade_state_is(strat2.nfvi_upgrade, UPGRADE_STATE_STARTED)
                 THEN AlarmOutcome(stp2, strat2, <<<<SUCCESS, <<>>>>>>, {},
                                   NoName)
                 ELSE AlarmOutcome(stp2, strat2, <<>>, {}, NoName)
        ELSE AlarmOutcome(stp2, strat, <<<<FAILED, <<>>>>>>, {}, NoName)

UpgradeStartStep_apply(stp, strat) ==
    AlarmOutcome(stp, strat, <<>>, {"upgrade-start"}, <<WAIT, <<>>>>)

UpgradeStartStep_handle_event(stp, strat, now_ms, event) ==
    IF event = HOST_AUDIT
    THEN LET wait_time == IF stp.wait_time = 0 THEN now_ms ELSE stp.wait_time
             secs_expired == (now_ms - wait_time) \div 1000
         IN  IF 60 <= secs_expired /\ ~stp.query_inprogress
             THEN AlarmOutcome([stp EXCEPT !.wait_time = wait_time,
                                           !.query_inprogress = TRUE],
                               strat, <<>>, {"get-upgrade"}, TRUE)
             ELSE AlarmOutcome([stp EXCEPT !.wait_time = wait_time],
                               strat, <<>>, {}, TRUE)
    ELSE AlarmOutcome(stp, strat, <<>>, {}, FALSE)

UpgradeStartStep_as_dict(stp) ==
    [name |-> stp.name, entity_type |-> "", entity_names |-> <<>>,
     entity_uuids |-> <<>>]

UpgradeStartStep_from_dict(data) ==
    [name |-> data.name, wait_time |-> 0, query_inprogress |-> FALSE]

UpgradeActivateStep_init ==
    [name |-> "activate-upgrade", wait_time |-> 0, query_inprogress |-> FALSE]

UpgradeActivateStep_activate_upgrade_callback(stp, strat, response) ==
    IF response.completed
    THEN AlarmOutcome(stp, [strat EXCEPT !.nfvi_upgrade = response.result_data],
                      <<>>, {}, NoName)
    ELSE AlarmOutcome(stp, strat, <<<<FAILED, <<>>>>>>, {}, NoName)

UpgradeActivateStep_get_upgrade_callback(stp, strat, response) ==
    LET stp2 == [stp EXCEPT !.query_inprogress = FALSE]
    IN  IF response.completed
        THEN LET strat2 == [strat EXCEPT !.nfvi_upgrade = response.result_data]
             IN  IF upgrade_state_is(strat2.nfvi_upgrade,
                                     UPGRADE_STATE_ACTIVATION_COMPLETE)
                 THEN AlarmOutcome(stp2, strat2, <<<<SUCCESS, <<>>>>>>, {},
                                   NoName)
                 ELSE AlarmOutcome(stp2, strat2, <<>>, {}, NoName)
        ELSE AlarmOutcome(stp2, strat, <<<<FAILED, <<>>>>>>, {}, NoName)

UpgradeActivateStep_apply(stp, strat) ==
    AlarmOutcome(stp, strat, <<>>, {"upgrade-activate"}, <<WAIT, <<>>>>)

UpgradeActivateStep_handle_event(stp, strat, now_ms, event) ==
    IF event = HOST_AUDIT
    THEN LET wait_time == IF stp.wait_time = 0 THEN now_ms ELSE stp.wait_time
             secs_expired == (now_ms - wait_time) \div 1000
         IN  IF 60 <= secs_expired /\ ~stp.query_inprogress
             THEN AlarmOutcome([stp EXCEPT !.wait_time = wait_time,
                                           !.query_inprogress = TRUE],
                               strat, <<>>, {"get-upgrade"}, TRUE)
             ELSE AlarmOutcome([stp EXCEPT !.wait_time = wait_time],
                               strat, <<>>, {}, TRUE)
    ELSE AlarmOutcome(stp, strat, <<>>, {}, FALSE)

UpgradeActivateStep_as_dict(stp) ==
    [name |-> stp.name, entity_type |-> "", entity_names |-> <<>>,
     entity_uuids |-> <<>>]

UpgradeActivateStep_from_dict(data) ==
    [name |-> data.name, wait_time |-> 0, query_inprogress |-> FALSE]

UpgradeCompleteStep_init ==
    [name |-> "complete-upgrade", wait_time |-> 0, query_inprogress |-> FALSE]

UpgradeCompleteStep_complete_upgrade_callback(stp, strat, response) ==
    IF response.completed
    THEN AlarmOutcome(stp, [strat EXCEPT !.nfvi_upgrade = response.result_data],
                      <<>>, {}, NoName)
    ELSE AlarmOutcome(stp, strat, <<<<FAILED, <<>>>>>>, {}, NoName)

\* A get-upgrade callback that takes any completed answer for the end of
\* the upgrade.
UpgradeCompleteStep_get_upgrade_callback_any_record(stp, strat, response) ==
    LET stp2 == [stp EXCEPT !.query_inprogress = FALSE]
    IN  IF response.completed
        THEN AlarmOutcome(stp2,
                          [strat EXCEPT !.nfvi_upgrade = response.result_data],
                          <<<<SUCCESS, <<>>>>>>, {}, NoName)
        ELSE AlarmOutcome(stp2, strat, <<<<FAILED, <<>>>>>>, {}, NoName)

UpgradeCompleteStep_get_upgrade_callback(stp, strat, response) ==
    LET stp2 == [stp EXCEPT !.query_inprogress = FALSE]
    IN  IF response.completed
        THEN LET strat2 == [strat EXCEPT !.nfvi_upgrade = response.result_data]
             IN  IF strat2.nfvi_upgrade # NoUpgrade
                 THEN AlarmOutcome(stp2, strat2, <<>>, {}, NoName)
                 ELSE AlarmOutcome(stp2, strat2, <<<<SUCCESS, <<>>>>>>, {},
                                   NoName)
        ELSE AlarmOutcome(stp2, strat, <<<<FAILED, <<>>>>>>, {}, NoName)

UpgradeCompleteStep_apply(stp, strat) ==
    AlarmOutcome(stp, strat, <<>>, {"upgrade-complete"}, <<WAIT, <<>>>>)

UpgradeCompleteStep_handle_event(stp, strat, now_ms, event) ==
    IF event = HOST_AUDIT
    THEN LET wait_time == IF stp.wait_time = 0 THEN now_ms ELSE stp.wait_time
             secs_expired == (now_ms - wait_time) \div 1000
         IN  IF 60 <= secs_expired /\ ~stp.query_inprogress
             THEN AlarmOutcome([stp EXCEPT !.wait_time = wait_time,
                                           !.query_inprogress = TRUE],
                               strat, <<>>, {"get-upgrade"}, TRUE)
             ELSE AlarmOutcome([stp EXCEPT !.wait_time = wait_time],
                               strat, <<>>, {}, TRUE)
    ELSE AlarmOutcome(stp, strat, <<>>, {}, FALSE)

UpgradeCompleteStep_as_dict(stp) ==
    [name |-> stp.name, entity_type |-> "", entity_names |-> <<>>,
     entity_uuids |-> <<>>]

UpgradeCompleteStep_from_dict(data) ==
    [name |-> data.name, wait_time |-> 0, query_inprogress |-> FALSE]

(***************************************************************************)
(* AbstractKubeUpgradeStep and the kube-upgrade steps built on it          *)
(***************************************************************************)
KUBE_HOST_UPGRADE_CONTROL_PLANE_FAILED == "kube-host-upgrade-control-plane-failed"

KUBE_UPGRADE_STARTED == "upgrade-started"

KUBE_UPGRADE_DOWNLOADING_IMAGES == "downloading-images"

KUBE_UPGRADE_DOWNLOADING_IMAGES_FAILED == "downloading-images-failed"

KUBE_UPGRADE_DOWNLOADED_IMAGES == "downloaded-images"

KUBE_UPGRADING_NETWORKING_FAILED == "upgrading-networking-failed"

KUBE_UPGRADED_NETWORKING == "upgraded-networking"

KUBE_UPGRADING_FIRST_MASTER_FAILED == "upgrading-first-master-failed"

KUBE_UPGRADED_FIRST_MASTER == "upgraded-first-master"

KUBE_UPGRADE_COMPLETE == "upgrade-complete"

KubeUpgradeStates ==
    {KUBE_UPGRADE_STARTED, KUBE_UPGRADE_DOWNLOADING_IMAGES,
     KUBE_UPGRADE_DOWNLOADING_IMAGES_FAILED, KUBE_UPGRADE_DOWNLOADED_IMAGES,
     KUBE_UPGRADING_NETWORKING_FAILED, KUBE_UPGRADED_NETWORKING,
     KUBE_UPGRADING_FIRST_MASTER_FAILED, KUBE_UPGRADED_FIRST_MASTER,
     KUBE_UPGRADE_COMPLETE}

KubeUpgradeObjects == [state : KubeUpgradeStates]

KubeUpgradeReasons == {<<>>, <<"sysinv returned 500">>}

KubeUpgradeResponses ==
    [completed : {FALSE}, result_data : {NoUpgrade},
     reason : KubeUpgradeReasons]
        \cup [completed : {TRUE}, result_data : KubeUpgradeObjects,
              reason : {<<>>}]

AbstractKubeUpgradeStep_init(step_name, success_state, fail_state) ==
    [name |-> step_name,
     wait_time |-> 0,
     query_inprogress |-> FALSE,
     success_state |-> success_state,
     fail_state |-> fail_state]

AbstractKubeUpgradeStep_get_kube_upgrade_callback(stp, strat, response) ==
    LET stp2 == [stp EXCEPT !.query_inprogress = FALSE]
    IN  IF response.completed
        THEN LET kube_upgrade_obj == response.result_data
                 strat2 == [strat EXCEPT !.nfvi_kube_upgrade = kube_upgrade_obj]
             IN  IF kube_upgrade_obj.state = stp.success_state
                 THEN AlarmOutcome(stp2, strat2, <<<<SUCCESS, <<>>>>>>, {},
                                   NoName)
                 ELSE IF stp.fail_state # NoName
                         /\ kube_upgrade_obj.state = stp.fail_state
                 THEN AlarmOutcome(stp2, strat2,
                          <<<<FAILED, <<stp.name, "failed:",
                                        stp.fail_state>>>>>>, {}, NoName)
                 ELSE AlarmOutcome(stp2, strat2, <<>>, {}, NoName)
        ELSE AlarmOutcome(stp2, strat, <<<<FAILED, response.reason>>>>, {},
                          NoName)

\* The handler without the wait for the first poll.
AbstractKubeUpgradeStep_handle_event_no_delay(stp, strat, now_ms, event, event_data) ==
    IF event = HOST_AUDIT
    THEN LET wait_time == IF stp.wait_time = 0 THEN now_ms ELSE stp.wait_time
         IN  IF ~stp.query_inprogress
             THEN AlarmOutcome([stp EXCEPT !.wait_time = wait_time,
                                           !.query_inprogress = TRUE],
                               strat, <<>>, {"get-kube-upgrade"}, TRUE)
             ELSE AlarmOutcome([stp EXCEPT !.wait_time = wait_time],
                               strat, <<>>, {}, TRUE)
    ELSE AlarmOutcome(stp, strat, <<>>, {}, FALSE)

AbstractKubeUpgradeStep_handle_event(stp, strat, now_ms, event, event_data) ==
    IF event = HOST_AUDIT
    THEN LET wait_time == IF stp.wait_time = 0 THEN now_ms ELSE stp.wait_time
             secs_expired == (now_ms - wait_time) \div 1000
         IN  IF 60 <= secs_expired /\ ~stp.query_inprogress
             THEN AlarmOutcome([stp EXCEPT !.wait_time = wait_time,
                                           !.query_inprogress = TRUE],
                               strat, <<>>, {"get-kube-upgrade"}, TRUE)
             ELSE AlarmOutcome([stp EXCEPT !.wait_time = wait_time],
                               strat, <<>>, {}, TRUE)
    ELSE AlarmOutcome(stp, strat, <<>>, {}, FALSE)

AbstractKubeUpgradeStep_as_dict(stp) ==
    [name |-> stp.name,
     success_state |-> stp.success_state,
     fail_state |-> stp.fail_state]

AbstractKubeUpgradeStep_from_dict(data) ==
    [name |-> data.name,
     wait_time |-> 0,
     query_inprogress |-> FALSE,
     success_state |-> data.success_state,
     fail_state |-> data.fail_state]

\* _response_callback of kube-upgrade-start, -complete, -download-images
\* and -networking: the object is stored, success is left to the polls.
AbstractKubeUpgradeStep_response_callback(stp, strat, response) ==
    IF response.completed
    THEN AlarmOutcome(stp,
                      [strat EXCEPT !.nfvi_kube_upgrade = response.result_data],
                      <<>>, {}, NoName)
    ELSE AlarmOutcome(stp, strat, <<<<FAILED, response.reason>>>>, {}, NoName)

KubeUpgradeStartStep_init(to_version, force) ==
    AbstractKubeUpgradeStep_init("kube-upgrade-start", KUBE_UPGRADE_STARTED,
                                 NoName)
        @@ [to_version |-> to_version, force |-> force]

KubeUpgradeStartStep_from_dict(data) ==
    AbstractKubeUpgradeStep_from_dict(data)
        @@ [to_version |-> data.to_version, force |-> data.force]

KubeUpgradeStartStep_as_dict(stp) ==
    AbstractKubeUpgradeStep_as_dict(stp)
        @@ [to_version |-> stp.to_version, force |-> stp.force]

KubeUpgradeStartStep_response_callback(stp, strat, response) ==
    AbstractKubeUpgradeStep_response_callback(stp, strat, response)

KubeUpgradeStartStep_apply(stp, strat) ==
    AlarmOutcome(stp, strat, <<>>, {"kube-upgrade-start"}, <<WAIT, <<>>>>)

KubeUpgradeCleanupStep_apply(stp, strat) ==
    AlarmOutcome(stp, strat, <<>>, {"kube-upgrade-cleanup"}, <<WAIT, <<>>>>)

KubeUpgradeCompleteStep_init ==
    AbstractKubeUpgradeStep_init("kube-upgrade-complete",
                                 KUBE_UPGRADE_COMPLETE, NoName)

KubeUpgradeCompleteStep_response_callback(stp, strat, response) ==
    AbstractKubeUpgradeStep_response_callback(stp, strat, response)

KubeUpgradeCompleteStep_apply(stp, strat) ==
    AlarmOutcome(stp, strat, <<>>, {"kube-upgrade-complete"}, <<WAIT, <<>>>>)

KubeUpgradeDownloadImagesStep_init ==
    AbstractKubeUpgradeStep_init("kube-upgrade-download-images",
                                 KUBE_UPGRADE_DOWNLOADED_IMAGES,
                                 KUBE_UPGRADE_DOWNLOADING_IMAGES_FAILED)

KubeUpgradeDownloadImagesStep_response_callback(stp, strat, response) ==
    AbstractKubeUpgradeStep_response_callback(stp, strat, response)

KubeUpgradeDownloadImagesStep_apply(stp, strat) ==
    AlarmOutcome(stp, strat, <<>>, {"kube-upgrade-download-images"},
                 <<WAIT, <<>>>>)

KubeUpgradeNetworkingStep_init ==
    AbstractKubeUpgradeStep_init("kube-upgrade-networking",
                                 KUBE_UPGRADED_NETWORKING,
                                 KUBE_UPGRADING_NETWORKING_FAILED)

KubeUpgradeNetworkingStep_response_callback(stp, strat, response) ==
    AbstractKubeUpgradeStep_response_callback(stp, strat, response)

KubeUpgradeNetworkingStep_apply(stp, strat) ==
    AlarmOutcome(stp, strat, <<>>, {"kube-upgrade-networking"}, <<WAIT, <<>>>>)

\* The host steps keep the target names and the uuids of the targets that
\* are in the host table when the step is built.
AbstractKubeHostUpgradeStep_init(host_name, force, step_name, success_state, fail_state) ==
    AbstractKubeUpgradeStep_init(step_name, success_state, fail_state)
        @@ [force |-> force,
            host_names |-> <<host_name>>,
            host_uuids |-> <<host_uuid(host_name)>>]

AbstractKubeHostUpgradeStep_from_dict(data, tbl) ==
    LET present == SelectSeq(data.entity_names,
                             LAMBDA n : host_table_get(tbl, n) # NoHost)
    IN  AbstractKubeUpgradeStep_from_dict(data)
            @@ [force |-> data.force,
                host_names |-> data.entity_names,
                host_uuids |-> [i \in 1..Len(present) |->
                                   host_uuid(present[i])]]

AbstractKubeHostUpgradeStep_as_dict(stp) ==
    AbstractKubeUpgradeStep_as_dict(stp)
        @@ [force |-> stp.force,
            entity_type |-> "hosts",
            entity_names |-> stp.host_names,
            entity_uuids |-> stp.host_uuids]

AbstractKubeHostListUpgradeStep_from_dict(data, tbl) ==
    LET present == SelectSeq(data.entity_names,
                             LAMBDA n : host_table_get(tbl, n) # NoHost)
    IN  AbstractKubeUpgradeStep_from_dict(data)
            @@ [force |-> data.force,
                host_names |-> data.entity_names,
                host_uuids |-> [i \in 1..Len(present) |->
                                   host_uuid(present[i])]]

AbstractKubeHostListUpgradeStep_as_dict(stp) ==
    AbstractKubeUpgradeStep_as_dict(stp)
        @@ [force |-> stp.force,
            entity_type |-> "hosts",
            entity_names |-> stp.host_names,
            entity_uuids |-> stp.host_uuids]

\* A host leaves the host table while the step waits.
KubeletHostDelete ==
    \E h \in HostNames :
        /\ step.name = "kube-host-upgrade-kubelet"
        /\ stage.result = WAIT
        /\ host_table[h].present
        /\ host_table' = [host_table EXCEPT ![h].present = FALSE]
        /\ UNCHANGED <<now, instance_table, step, stage, strategy, pending,
                       calls, shadow, ghost>>

\* The strategy is written out and read back while the step waits, which
\* loses the request in flight.
KubeletLoad ==
    /\ step.name = "kube-host-upgrade-kubelet"
    /\ stage.result = WAIT
    /\ ghost.loads < MaxRehydrations
    /\ step' = AbstractKubeHostListUpgradeStep_from_dict(
                   AbstractKubeHostListUpgradeStep_as_dict(step), host_table)
    /\ pending' = {}
    /\ ghost' = [ghost EXCEPT !.event = "load", !.event_data = NoName,
                              !.loads = @ + 1]
    /\ UNCHANGED <<now, host_table, instance_table, stage, strategy, calls,
                   shadow>>

NextKubelet ==
    \/ KubeletAdvance
    \/ KubeletApply
    \/ KubeletHostAudit
    \/ KubeletFailed
    \/ KubeletOtherEvent
    \/ KubeletCallback
    \/ KubeletHostDelete
    \/ KubeletLoad

SpecKubelet == InitKubelet /\ [][NextKubelet]_vars

KubeHostUpgradeControlPlaneStep_init(host_name, force, target_state, target_failure_state) ==
    AbstractKubeHostUpgradeStep_init(host_name, force,
                                     "kube-host-upgrade-control-plane",
                                     target_state, target_failure_state)

KubeHostUpgradeControlPlaneStep_handle_event(stp, strat, now_ms, event, event_data) ==
    IF event = KUBE_HOST_UPGRADE_CONTROL_PLANE_FAILED
           /\ event_data # NoName /\ event_data \in SeqToSet(stp.host_names)
    THEN AlarmOutcome(stp, strat,
             <<<<FAILED, <<"kube host upgrade control plane", event_data,
                           "failed">>>>>>, {}, TRUE)
    ELSE AbstractKubeUpgradeStep_handle_event(stp, strat, now_ms, event,
                                              event_data)

KubeHostUpgradeControlPlaneStep_apply(stp, op) ==
    Outcome(stp, <<>>, 1, operation_result(op))

(***************************************************************************)
(* The polling steps together: wait-data-sync, wait-alarms-clear,          *)
(* start/activate/complete-upgrade, the kube-upgrade steps,                *)
(* kube-host-upgrade-control-plane and kube-host-upgrade-kubelet.          *)
(***************************************************************************)
WaitDataSyncStep_as_dict(stp) ==
    [name |-> stp.name, entity_type |-> "", entity_names |-> <<>>,
     entity_uuids |-> <<>>, ignore_alarms |-> stp.ignore_alarms]

WaitDataSyncStep_from_dict(data) ==
    [name |-> data.name,
     ignore_alarms |-> data.ignore_alarms,
     wait_time |-> 0,
     query_inprogress |-> FALSE]

WaitAlarmsClearStep_as_dict(stp) ==
    [name |-> stp.name, entity_type |-> "", entity_names |-> <<>>,
     entity_uuids |-> <<>>,
     first_query_delay_in_secs |-> stp.first_query_delay_in_secs,
     ignore_alarms |-> stp.ignore_alarms]

WaitAlarmsClearStep_from_dict(data) ==
    [name |-> data.name,
     first_query_delay_in_secs |-> data.first_query_delay_in_secs,
     ignore_alarms |-> data.ignore_alarms,
     wait_time |-> 0,
     query_inprogress |-> FALSE]

KubeUpgradeStepNames ==
    {"kube-upgrade-start", "kube-upgrade-cleanup", "kube-upgrade-complete",
     "kube-upgrade-download-images", "kube-upgrade-networking"}

\* The steps that call a director in apply.
KubeHostStepNames ==
    {"kube-host-upgrade-control-plane", "kube-host-upgrade-kubelet"}

PollingStepNames ==
    {"wait-data-sync", "wait-alarms-clear", "start-upgrade",
     "activate-upgrade", "complete-upgrade"}
        \cup KubeUpgradeStepNames \cup KubeHostStepNames

\* The driver requests whose completion is a poll answer.
PollRequests ==
    {"platform", "get-upgrade", "get-kube-upgrade", "kube-host-upgrade-list"}

\* The driver requests that apply issues.
InitiatingRequests ==
    {"upgrade-start", "upgrade-activate", "upgrade-complete"}
        \cup KubeUpgradeStepNames

PollingRequests == PollRequests \cup InitiatingRequests

PollingStep_apply(stp, strat, op) ==
    LET directed(out) ==
            AlarmOutcome(out.step, strat, out.completes, {}, out.ret)
    IN  CASE stp.name = "wait-data-sync" -> WaitDataSyncStep_apply(stp, strat)
          [] stp.name = "wait-alarms-clear" ->
                 WaitAlarmsClearStep_apply(stp, strat)
          [] stp.name = "start-upgrade" -> UpgradeStartStep_apply(stp, strat)
          [] stp.name = "activate-upgrade" ->
                 UpgradeActivateStep_apply(stp, strat)
          [] stp.name = "complete-upgrade" ->
                 UpgradeCompleteStep_apply(stp, strat)
          [] stp.name = "kube-upgrade-start" ->
                 KubeUpgradeStartStep_apply(stp, strat)
          [] stp.name = "kube-upgrade-cleanup" ->
                 KubeUpgradeCleanupStep_apply(stp, strat)
          [] stp.name = "kube-upgrade-complete" ->
                 KubeUpgradeCompleteStep_apply(stp, strat)
          [] stp.name = "kube-upgrade-download-images" ->
                 KubeUpgradeDownloadImagesStep_apply(stp, strat)
          [] stp.name = "kube-upgrade-networking" ->
                 KubeUpgradeNetworkingStep_apply(stp, strat)
          [] stp.name = "kube-host-upgrade-control-plane" ->
                 directed(KubeHostUpgradeControlPlaneStep_apply(stp, op))
          [] stp.name = "kube-host-upgrade-kubelet" ->
                 directed(KubeHostUpgradeKubeletStep_apply(stp, op))

PollingStep_handle_event(stp, strat, now_ms, event, event_data) ==
    CASE stp.name = "wait-data-sync" ->
             WaitDataSyncStep_handle_event(stp, strat, now_ms, event)
      [] stp.name = "wait-alarms-clear" ->
             WaitAlarmsClearStep_handle_event(stp, strat, now_ms, event)
      [] stp.name = "start-upgrade" ->
             UpgradeStartStep_handle_event(stp, strat, now_ms, event)
      [] stp.name = "activate-upgrade" ->
             UpgradeActivateStep_handle_event(stp, strat, now_ms, event)
      [] stp.name = "complete-upgrade" ->
             UpgradeCompleteStep_handle_event(stp, strat, now_ms, event)
      [] stp.name \in KubeUpgradeStepNames ->
             AbstractKubeUpgradeStep_handle_event(stp, strat, now_ms, event,
                                                  event_data)
      [] stp.name = "kube-host-upgrade-control-plane" ->
             KubeHostUpgradeControlPlaneStep_handle_event(stp, strat, now_ms,
                                                          event, event_data)
      [] stp.name = "kube-host-upgrade-kubelet" ->
             KubeHostUpgradeKubeletStep_handle_event(stp, strat, now_ms,
                                                     event, event_data)

\* The callback the step gave the driver with the request.
PollingStep_callback(stp, strat, request, response) ==
    CASE request = "platform" /\ stp.name = "wait-data-sync" ->
             WaitDataSyncStep_query_alarms_callback(stp, strat, response)
      [] request = "platform" /\ stp.name = "wait-alarms-clear" ->
             WaitAlarmsClearStep_query_alarms_callback(stp, strat, response)
      [] request = "upgrade-start" ->
             UpgradeStartStep_start_upgrade_callback(stp, strat, response)
      [] request = "upgrade-activate" ->
             UpgradeActivateStep_activate_upgrade_callback(stp, strat, response)
      [] request = "upgrade-complete" ->
             UpgradeCompleteStep_complete_upgrade_callback(stp, strat, response)
      [] request = "get-upgrade" /\ stp.name = "start-upgrade" ->
             UpgradeStartStep_get_upgrade_callback(stp, strat, response)
      [] request = "get-upgrade" /\ stp.name = "activate-upgrade" ->
             UpgradeActivateStep_get_upgrade_callback(stp, strat, response)
      [] request = "get-upgrade" /\ stp.name = "complete-upgrade" ->
             UpgradeCompleteStep_get_upgrade_callback(stp, strat, response)
      [] request = "kube-upgrade-start" ->
             KubeUpgradeStartStep_response_callback(stp, strat, response)
      [] request = "kube-upgrade-cleanup" ->
             LET out == KubeUpgradeCleanupStep_response_callback(stp, strat,
                                                                 response)
             IN  AlarmOutcome(out.step, out.strategy, out.completes, {},
                              NoName)
      [] request = "kube-upgrade-complete" ->
             KubeUpgradeCompleteStep_response_callback(stp, strat, response)
      [] request = "kube-upgrade-download-images" ->
             KubeUpgradeDownloadImagesStep_response_callback(stp, strat,
                                                             response)
      [] request = "kube-upgrade-networking" ->
             KubeUpgradeNetworkingStep_response_callback(stp, strat, response)
      [] request = "get-kube-upgrade" ->
             AbstractKubeUpgradeStep_get_kube_upgrade_callback(stp, strat,
                                                               response)
      [] request = "kube-host-upgrade-list" ->
             KubeHostUpgradeKubeletStep_get_kube_host_upgrade_list_callback(
                 stp, strat, response)

\* What the driver may answer to a request.
PollingResponses(request, tbl, now_ms) ==
    CASE request = "platform" ->
             {[completed |-> r.completed, result_data |-> r.result_data,
               reason |-> <<>>] :
                  r \in {a \in AlarmResponses : Len(a.result_data) <= 1}}
      [] request \in {"upgrade-start", "upgrade-activate", "upgrade-complete",
                      "get-upgrade"} -> UpgradeResponses
      [] request \in KubeUpgradeStepNames \cup {"get-kube-upgrade"} ->
             KubeUpgradeResponses
      [] request = "kube-host-upgrade-list" ->
             KubeHostUpgradeResponses(tbl, now_ms)

PollingStep_as_dict(stp) ==
    CASE stp.name = "wait-data-sync" -> WaitDataSyncStep_as_dict(stp)
      [] stp.name = "wait-alarms-clear" -> WaitAlarmsClearStep_as_dict(stp)
      [] stp.name = "start-upgrade" -> UpgradeStartStep_as_dict(stp)
      [] stp.name = "activate-upgrade" -> UpgradeActivateStep_as_dict(stp)
      [] stp.name = "complete-upgrade" -> UpgradeCompleteStep_as_dict(stp)
      [] stp.name = "kube-upgrade-start" -> KubeUpgradeStartStep_as_dict(stp)
      [] stp.name \in KubeUpgradeStepNames \ {"kube-upgrade-start"} ->
             AbstractKubeUpgradeStep_as_dict(stp)
      [] stp.name = "kube-host-upgrade-control-plane" ->
             AbstractKubeHostUpgradeStep_as_dict(stp)
      [] stp.name = "kube-host-upgrade-kubelet" ->
             AbstractKubeHostListUpgradeStep_as_dict(stp)

PollingStep_from_dict(data, tbl) ==
    CASE data.name = "wait-data-sync" -> WaitDataSyncStep_from_dict(data)
      [] data.name = "wait-alarms-clear" -> WaitAlarmsClearStep_from_dict(data)
      [] data.name = "start-upgrade" -> UpgradeStartStep_from_dict(data)
      [] data.name = "activate-upgrade" -> UpgradeActivateStep_from_dict(data)
      [] data.name = "complete-upgrade" -> UpgradeCompleteStep_from_dict(data)
      [] data.name = "kube-upgrade-start" -> KubeUpgradeStartStep_from_dict(data)
      [] data.name \in KubeUpgradeStepNames \ {"kube-upgrade-start"} ->
             AbstractKubeUpgradeStep_from_dict(data)
      [] data.name = "kube-host-upgrade-control-plane" ->
             AbstractKubeHostUpgradeStep_from_dict(data, tbl)
      [] data.name = "kube-host-upgrade-kubelet" ->
             AbstractKubeHostListUpgradeStep_from_dict(data, tbl)

(***************************************************************************)
(* Specification of a polling step: it is applied, audits and other events *)
(* arrive as time passes, the driver answers the outstanding requests in   *)
(* any order, and the strategy may be saved and loaded while the step      *)
(* waits, which loses the requests in flight.  The history keeps the time  *)
(* of the first audit handled since the step was built or loaded.          *)
(***************************************************************************)
PollingSteps ==
    {WaitDataSyncStep_init(<<>>), UpgradeStartStep_init,
     UpgradeActivateStep_init, UpgradeCompleteStep_init,
     KubeUpgradeStartStep_init(ToVersion, FALSE), KubeUpgradeCleanupStep_init,
     KubeUpgradeCompleteStep_init, KubeUpgradeDownloadImagesStep_init,
     KubeUpgradeNetworkingStep_init,
     KubeHostUpgradeControlPlaneStep_init("w-0", FALSE,
         KUBE_UPGRADED_FIRST_MASTER, KUBE_UPGRADING_FIRST_MASTER_FAILED)}
        \cup {WaitAlarmsClearStep_init(d, <<>>) : d \in FirstQueryDelays}
        \cup {KubeHostUpgradeKubeletStep_init(host_names, TRUE) :
                 host_names \in KubeletTargetLists}

InitPolling ==
    /\ now = StartMs
    /\ host_table = [h \in HostNames |->
                        [present |-> TRUE,
                         kubelet_matches_at |-> IF h = "w-0" THEN 70 ELSE 200]]
    /\ instance_table = <<>>
    /\ strategy = [alarm_restrictions |-> "strict",
                   nfvi_alarms |-> <<>>,
                   nfvi_upgrade |-> NoUpgrade,
                   nfvi_kube_upgrade |-> NoUpgrade,
                   to_version |-> ToVersion,
                   nfvi_kube_host_upgrade_list |-> <<>>]
    /\ step \in PollingSteps
    /\ stage = NewStage
    /\ pending = [r \in PollingRequests |-> 0]
    /\ calls = 0
    /\ shadow = <<>>
    /\ ghost = [event |-> NoName, event_data |-> NoName, op |-> NoName,
                request |-> NoName, response |-> NoResponse, issued |-> {},
                loads |-> 0, audited |-> FALSE, first_audit |-> 0]

PollingIssue(queries) ==
    [r \in DOMAIN pending |-> pending[r] + IF r \in queries THEN 1 ELSE 0]

PollingAdvance ==
    /\ step.name \in PollingStepNames
    /\ stage.result = WAIT
    /\ now < StartMs + MaxTicks * PollTickMs
    /\ now' = now + PollTickMs
    /\ UNCHANGED <<host_table, instance_table, step, stage, strategy, pending,
                   calls, shadow, ghost>>

PollingApply ==
    \E op \in OperationStates :
        LET out == PollingStep_apply(step, strategy, op)
        IN  /\ step.name \in PollingStepNames
            /\ stage.result = INITIAL
            /\ step.name \in KubeHostStepNames \/ op = "inprogress"
            /\ SetCur(RunApply(Cur, Outcome(out.step, out.completes,
                   IF step.name \in KubeHostStepNames THEN 1 ELSE 0, out.ret)))
            /\ strategy' = out.strategy
            /\ pending' = PollingIssue(out.queries)
            /\ ghost' = [ghost EXCEPT !.event = "apply", !.event_data = NoName,
                                      !.op = op, !.issued = out.queries]
            /\ UNCHANGED <<now, host_table, instance_table, shadow>>

PollingDispatch(event, event_data) ==
    LET out == PollingStep_handle_event(step, strategy, now, event, event_data)
    IN  /\ step.name \in PollingStepNames
        /\ stage.result = WAIT
        /\ SetCur(RunEvent(Cur, Outcome(out.step, out.completes, 0, out.ret)))
        /\ strategy' = out.strategy
        /\ pending' = PollingIssue(out.queries)
        /\ ghost' = [ghost EXCEPT
               !.event = event, !.event_data = event_data,
               !.issued = out.queries,
               !.audited = @ \/ event = HOST_AUDIT,
               !.first_audit = IF event = HOST_AUDIT /\ ~ghost.audited
                               THEN now ELSE @]
        /\ UNCHANGED <<now, host_table, instance_table, shadow>>

PollingHostAudit == PollingDispatch(HOST_AUDIT, NoName)

PollingFailedEvent ==
    \E event \in {KUBE_HOST_UPGRADE_CONTROL_PLANE_FAILED,
                  KUBE_HOST_UPGRADE_KUBELET_FAILED},
       h \in HostNames \cup {NoName} :
        PollingDispatch(event, h)

PollingOtherEvent == PollingDispatch(HOST_STATE_CHANGED, NoName)

\* The driver completes one outstanding request.
PollingCallback ==
    \E request \in PollingRequests :
        \E response \in PollingResponses(request, host_table, now) :
            LET out == PollingStep_callback(step, strategy, request, response)
            IN  /\ step.name \in PollingStepNames
                /\ pending[request] > 0
                /\ SetCur(RunEvent(Cur, Outcome(out.step, out.completes, 0,
                                                out.ret)))
                /\ strategy' = out.strategy
                /\ pending' = [pending EXCEPT ![request] = @ - 1]
                /\ ghost' = [ghost EXCEPT !.event = "callback",
                                          !.event_data = NoName,
                                          !.request = request,
                                          !.response = response,
                                          !.issued = {}]
                /\ UNCHANGED <<now, host_table, instance_table, shadow>>

\* The strategy is written out and read back while the step waits.
PollingLoad ==
    /\ step.name \in PollingStepNames
    /\ ghost.loads < MaxRehydrations
    /\ stage.result = WAIT
    /\ step' = PollingStep_from_dict(PollingStep_as_dict(step), host_table)
    /\ pending' = [r \in PollingRequests |-> 0]
    /\ ghost' = [ghost EXCEPT !.event = "load", !.event_data = NoName,
                              !.issued = {}, !.loads = @ + 1,
                              !.audited = FALSE, !.first_audit = 0]
    /\ UNCHANGED <<now, host_table, instance_table, stage, strategy, calls,
                   shadow>>

NextPolling ==
    \/ PollingAdvance
    \/ PollingApply
    \/ PollingHostAudit
    \/ PollingFailedEvent
    \/ PollingOtherEvent
    \/ PollingCallback
    \/ PollingLoad

SpecPolling == InitPolling /\ [][NextPolling]_vars

(***************************************************************************)
(* Specification of the host-targeted steps with at most one target, so    *)
(* that events about a host that is not a target reach every step.         *)
(***************************************************************************)
InitHostEvents ==
    /\ \/ InitUnlock
       \/ InitLock
       \/ InitFw
       \/ InitRerun
       \/ InitKubelet
       \/ InitTimedHosts
       \/ InitPolling /\ step.name = "kube-host-upgrade-control-plane"
    /\ Len(step.host_names) <= 1
    /\ step.name = "kube-host-upgrade-kubelet"
           => \A h \in HostNames : host_table[h].kubelet_matches_at = 0
    /\ step.name = "lock-hosts"
           => /\ instance_is_locked(instance_table["i-0"])
              /\ instance_is_disabled(instance_table["i-0"])

NextHostEvents ==
    \/ step.name = "unlock-hosts" /\ NextUnlock
    \/ step.name = "lock-hosts" /\ HostEventsLock
    \/ step.name = "fw-update-hosts" /\ NextFw
    \/ step.name = "kube-host-upgrade-kubelet" /\ NextKubelet
    \/ step.name = "kube-host-upgrade-control-plane" /\ NextPolling
    \/ step.name \in TimedHostsStepNames /\ NextTimedHosts
    \/ /\ step.name \in {"upgrade-hosts", "disable-host-services",
                         "enable-host-services"}
       /\ stage.result # SUCCESS
       /\ HostEventsRerun

SpecHostEvents == InitHostEvents /\ [][NextHostEvents]_vars

(***************************************************************************)
(* Specification of wait-data-sync and wait-alarms-clear until they end:   *)
(* audits arrive as time passes, the driver answers each poll with any     *)
(* alarm list, and the controller fails the step at its deadline.          *)
(***************************************************************************)
AlarmWaitMaxTicks == 6

\* The history counts the polls of a step up to this many.
MaxPollsCounted == 2

InitAlarmWait ==
    /\ now = StartMs
    /\ host_table = <<>>
    /\ instance_table = <<>>
    /\ \E r \in AlarmRestrictions : strategy = NewStrategy(r)
    /\ \E ignore_alarms \in IgnoreLists :
           \/ step = WaitDataSyncStep_init(ignore_alarms)
           \/ \E d \in FirstQueryDelays :
                  step = WaitAlarmsClearStep_init(d, ignore_alarms)
    /\ stage = NewStage
    /\ pending = {}
    /\ calls = 0
    /\ shadow = <<>>
    /\ ghost = [event |-> NoName, response |-> NoResponse, issued |-> {},
                applied_at |-> 0, audited |-> FALSE, first_audit |-> 0,
                polls |-> 0]

AlarmWaitAdvance ==
    /\ stage.result = WAIT
    /\ now < StartMs + AlarmWaitMaxTicks * PollTickMs
    /\ now' = now + PollTickMs
    /\ UNCHANGED <<host_table, instance_table, step, stage, strategy, pending,
                   calls, shadow, ghost>>

AlarmWaitApply ==
    LET out == AlarmsStep_apply(step, strategy, FALSE)
    IN  /\ stage.result = INITIAL
        /\ SetCur(RunApply(Cur, Outcome(out.step, out.completes, 0, out.ret)))
        /\ strategy' = out.strategy
        /\ pending' = pending \cup out.queries
        /\ ghost' = [ghost EXCEPT !.event = "apply", !.issued = out.queries,
                                  !.applied_at = now]
        /\ UNCHANGED <<now, host_table, instance_table, shadow>>

AlarmWaitDispatch(event) ==
    LET out == AlarmsStep_handle_event(step, strategy, now, event)
    IN  /\ stage.result = WAIT
        /\ SetCur(RunEvent(Cur, Outcome(out.step, out.completes, 0, out.ret)))
        /\ strategy' = out.strategy
        /\ pending' = pending \cup out.queries
        /\ ghost' = [ghost EXCEPT
               !.event = event,
               !.issued = out.queries,
               !.audited = @ \/ event = HOST_AUDIT,
               !.first_audit = IF event = HOST_AUDIT /\ ~ghost.audited
                               THEN now ELSE @,
               !.polls = IF out.queries # {}
                         THEN Min(@ + 1, MaxPollsCounted) ELSE @]
        /\ UNCHANGED <<now, host_table, instance_table, shadow>>

AlarmWaitHostAudit == AlarmWaitDispatch(HOST_AUDIT)

AlarmWaitOtherEvent ==
    \E event \in {HOST_STATE_CHANGED, INSTANCE_AUDIT} : AlarmWaitDispatch(event)

\* The poll answers: no answer, no alarm, or one alarm of any kind.
AlarmWaitResponses == {r \in AlarmResponses : Len(r.result_data) <= 1}

AlarmWaitCallback ==
    \E fm_service \in pending, response \in AlarmWaitResponses :
        LET out == AlarmsStep_query_alarms_callback(step, strategy,
                                                     fm_service, response)
        IN  /\ SetCur(RunEvent(Cur, Outcome(out.step, out.completes, 0,
                                            out.ret)))
            /\ strategy' = out.strategy
            /\ pending' = pending \ {fm_service}
            /\ ghost' = [ghost EXCEPT !.event = "callback",
                                      !.response = response,
                                      !.issued = {}]
            /\ UNCHANGED <<now, host_table, instance_table, shadow>>

\* The controller finds the step's deadline expired and asks its policy.
AlarmWaitTimeout ==
    /\ stage.result = WAIT
    /\ now - ghost.applied_at >= StepTimeoutInSecs[step.name] * 1000
    /\ stage' = stage_step_complete(stage, step_timeout(step)[1],
                                    step_timeout(step)[2])
    /\ ghost' = [ghost EXCEPT !.event = "timeout", !.issued = {}]
    /\ UNCHANGED <<now, host_table, instance_table, step, strategy, pending,
                   calls, shadow>>

NextAlarmWait ==
    \/ AlarmWaitAdvance
    \/ AlarmWaitApply
    \/ AlarmWaitHostAudit
    \/ AlarmWaitOtherEvent
    \/ AlarmWaitCallback
    \/ AlarmWaitTimeout

SpecAlarmWait == InitAlarmWait /\ [][NextAlarmWait]_vars

(***************************************************************************)
(* strategy_step_rebuild_from_dict and the step names of the library       *)
(***************************************************************************)
\* The names StrategyStepNames declares.
StrategyStepNames ==
    {"query-hosts",
     "system-stabilize",
     "lock-hosts",
     "unlock-hosts",
     "reboot-hosts",
     "upgrade-hosts",
     "start-upgrade",
     "activate-upgrade",
     "complete-upgrade",
     "swact-hosts",
     "sw-patch-hosts",
     "fw-update-hosts",
     "fw-update-abort-hosts",
     "migrate-instances",
     "stop-instances",
     "start-instances",
     "query-alarms",
     "wait-data-sync",
     "wait-alarms-clear",
     "query-sw-patches",
     "query-sw-patch-hosts",
     "query-fw-update-host",
     "query-upgrade",
     "disable-host-services",
     "enable-host-services",
     "apply-patches",
     "query-kube-host-upgrade",
     "query-kube-upgrade",
     "query-kube-versions",
     "kube-upgrade-start",
     "kube-upgrade-cleanup",
     "kube-upgrade-complete",
     "kube-upgrade-download-images",
     "kube-upgrade-networking",
     "kube-host-upgrade-control-plane",
     "kube-host-upgrade-kubelet"}

\* The name each step class passes to its base class.
StepClassName ==
    ("UnlockHostsStep" :> "unlock-hosts")
    @@ ("LockHostsStep" :> "lock-hosts")
    @@ ("RebootHostsStep" :> "reboot-hosts")
    @@ ("SwactHostsStep" :> "swact-hosts")
    @@ ("SwPatchHostsStep" :> "sw-patch-hosts")
    @@ ("UpgradeHostsStep" :> "upgrade-hosts")
    @@ ("UpgradeStartStep" :> "start-upgrade")
    @@ ("UpgradeActivateStep" :> "activate-upgrade")
    @@ ("UpgradeCompleteStep" :> "complete-upgrade")
    @@ ("MigrateInstancesStep" :> "migrate-instances")
    @@ ("StartInstancesStep" :> "start-instances")
    @@ ("StopInstancesStep" :> "stop-instances")
    @@ ("SystemStabilizeStep" :> "system-stabilize")
    @@ ("QueryAlarmsStep" :> "query-alarms")
    @@ ("WaitDataSyncStep" :> "wait-data-sync")
    @@ ("WaitAlarmsClearStep" :> "wait-alarms-clear")
    @@ ("QuerySwPatchesStep" :> "query-sw-patches")
    @@ ("QuerySwPatchHostsStep" :> "query-sw-patch-hosts")
    @@ ("QueryFwUpdateHostStep" :> "query-fw-update-host")
    @@ ("FwUpdateHostsStep" :> "fw-update-hosts")
    @@ ("FwUpdateAbortHostsStep" :> "fw-update-abort-hosts")
    @@ ("QueryUpgradeStep" :> "query-upgrade")
    @@ ("DisableHostServicesStep" :> "disable-host-services")
    @@ ("EnableHostServicesStep" :> "enable-host-services")
    @@ ("ApplySwPatchesStep" :> "apply-patches")
    @@ ("QueryKubeUpgradeStep" :> "query-kube-upgrade")
    @@ ("QueryKubeVersionsStep" :> "query-kube-versions")
    @@ ("QueryKubeHostUpgradeStep" :> "query-kube-host-upgrade")
    @@ ("KubeUpgradeStartStep" :> "kube-upgrade-start")
    @@ ("KubeUpgradeCleanupStep" :> "kube-upgrade-cleanup")
    @@ ("KubeUpgradeCompleteStep" :> "kube-upgrade-complete")
    @@ ("KubeUpgradeDownloadImagesStep" :> "kube-upgrade-download-images")
    @@ ("KubeUpgradeNetworkingStep" :> "kube-upgrade-networking")
    @@ ("KubeHostUpgradeControlPlaneStep" :> "kube-host-upgrade-control-plane")
    @@ ("KubeHostUpgradeKubeletStep" :> "kube-host-upgrade-kubelet")

StepClasses == DOMAIN StepClassName

\* A rebuild that consults the rebuild_map only.
rebuild_class_map_only(name) ==
    CASE name = "apply-patches" -> "ApplySwPatchesStep"
      [] name = "kube-host-upgrade-control-plane" -> "KubeHostUpgradeControlPlaneStep"
      [] name = "kube-host-upgrade-kubelet" -> "KubeHostUpgradeKubeletStep"
      [] name = "kube-upgrade-cleanup" -> "KubeUpgradeCleanupStep"
      [] name = "kube-upgrade-complete" -> "KubeUpgradeCompleteStep"
      [] name = "kube-upgrade-download-images" -> "KubeUpgradeDownloadImagesStep"
      [] name = "kube-upgrade-networking" -> "KubeUpgradeNetworkingStep"
      [] name = "kube-upgrade-start" -> "KubeUpgradeStartStep"
      [] name = "query-kube-host-upgrade" -> "QueryKubeHostUpgradeStep"
      [] name = "query-kube-upgrade" -> "QueryKubeUpgradeStep"
      [] name = "query-kube-versions" -> "QueryKubeVersionsStep"
      [] OTHER -> "StrategyStep"

\* The class strategy_step_rebuild_from_dict makes the object of, from
\* data['name']: first the rebuild_map, then the chain of comparisons, and
\* the base class when nothing matches.
rebuild_class(name) ==
    CASE name = "apply-patches" -> "ApplySwPatchesStep"
      [] name = "kube-host-upgrade-control-plane" -> "KubeHostUpgradeControlPlaneStep"
      [] name = "kube-host-upgrade-kubelet" -> "KubeHostUpgradeKubeletStep"
      [] name = "kube-upgrade-cleanup" -> "KubeUpgradeCleanupStep"
      [] name = "kube-upgrade-complete" -> "KubeUpgradeCompleteStep"
      [] name = "kube-upgrade-download-images" -> "KubeUpgradeDownloadImagesStep"
      [] name = "kube-upgrade-networking" -> "KubeUpgradeNetworkingStep"
      [] name = "kube-upgrade-start" -> "KubeUpgradeStartStep"
      [] name = "query-kube-host-upgrade" -> "QueryKubeHostUpgradeStep"
      [] name = "query-kube-upgrade" -> "QueryKubeUpgradeStep"
      [] name = "query-kube-versions" -> "QueryKubeVersionsStep"
      [] name = "system-stabilize" -> "SystemStabilizeStep"
      [] name = "unlock-hosts" -> "UnlockHostsStep"
      [] name = "reboot-hosts" -> "RebootHostsStep"
      [] name = "lock-hosts" -> "LockHostsStep"
      [] name = "swact-hosts" -> "SwactHostsStep"
      [] name = "upgrade-hosts" -> "UpgradeHostsStep"
      [] name = "start-upgrade" -> "UpgradeStartStep"
      [] name = "activate-upgrade" -> "UpgradeActivateStep"
      [] name = "complete-upgrade" -> "UpgradeCompleteStep"
      [] name = "sw-patch-hosts" -> "SwPatchHostsStep"
      [] name = "migrate-instances" -> "MigrateInstancesStep"
      [] name = "start-instances" -> "StartInstancesStep"
      [] name = "stop-instances" -> "StopInstancesStep"
      [] name = "query-alarms" -> "QueryAlarmsStep"
      [] name = "wait-data-sync" -> "WaitDataSyncStep"
      [] name = "wait-alarms-clear" -> "WaitAlarmsClearStep"
      [] name = "query-sw-patches" -> "QuerySwPatchesStep"
      [] name = "query-sw-patch-hosts" -> "QuerySwPatchHostsStep"
      [] name = "query-upgrade" -> "QueryUpgradeStep"
      [] name = "disable-host-services" -> "DisableHostServicesStep"
      [] name = "enable-host-services" -> "EnableHostServicesStep"
      [] name = "fw-update-hosts" -> "FwUpdateHostsStep"
      [] name = "fw-update-abort-hosts" -> "FwUpdateAbortHostsStep"
      [] name = "query-fw-update-host" -> "QueryFwUpdateHostStep"
      [] OTHER -> "StrategyStep"

\* What the base class writes of the step: its name (with the timeout and
\* the result fields, which the rebuild does not read).
StrategyStep_as_dict(stp) == [name |-> stp.name]

\* from_dict of any class keeps the name of the dictionary.
StrategyStep_from_dict(class, data) == [class |-> class, name |-> data.name]

strategy_step_rebuild_from_dict(data) ==
    StrategyStep_from_dict(rebuild_class(data.name), data)

(***************************************************************************)
(* Specification of the rebuild: a step of any class of the library is     *)
(* written as a dictionary and rebuilt from it, and dictionaries with      *)
(* names the library does not implement are rebuilt too.                   *)
(***************************************************************************)
ForeignNames == {"query-hosts", "no-such-step", "Unlock-Hosts", NoName}

InitRebuild ==
    /\ now = StartMs
    /\ host_table = <<>>
    /\ instance_table = <<>>
    /\ strategy = <<>>
    /\ \E class \in StepClasses :
           /\ step = [class |-> class, name |-> StepClassName[class]]
           /\ ghost = [event |-> "init", class |-> class,
                       name |-> StepClassName[class], foreign |-> FALSE]
    /\ stage = NewStage
    /\ pending = {}
    /\ calls = 0
    /\ shadow = [name |-> NoName]

RebuildAsDict ==
    /\ step.class \in StepClasses
    /\ ghost.event \in {"init", "rebuild"}
    /\ shadow' = StrategyStep_as_dict(step)
    /\ ghost' = [event |-> "as_dict", class |-> step.class,
                 name |-> step.name, foreign |-> FALSE]
    /\ UNCHANGED <<now, host_table, instance_table, step, stage, strategy,
                   pending, calls>>

\* A dictionary that no step of the library wrote.
RebuildForeignDict ==
    \E name \in ForeignNames :
        /\ step.class \in StepClasses \cup {"StrategyStep"}
        /\ ghost.event \in {"init", "rebuild"}
        /\ shadow' = [name |-> name]
        /\ ghost' = [event |-> "as_dict", class |-> NoName, name |-> name,
                     foreign |-> TRUE]
        /\ UNCHANGED <<now, host_table, instance_table, step, stage,
                       strategy, pending, calls>>

RebuildFromDict ==
    /\ step.class \in StepClasses \cup {"StrategyStep"}
    /\ ghost.event = "as_dict"
    /\ step' = strategy_step_rebuild_from_dict(shadow)
    /\ ghost' = [ghost EXCEPT !.event = "rebuild"]
    /\ UNCHANGED <<now, host_table, instance_table, stage, strategy, pending,
                   calls, shadow>>

NextRebuild ==
    \/ RebuildAsDict
    \/ RebuildForeignDict
    \/ RebuildFromDict

SpecRebuild == InitRebuild /\ [][NextRebuild]_vars

(***************************************************************************)
(* Specification of the steps that poll under query_inprogress: the        *)
(* polling steps above and sw-patch-hosts, with the requests in flight     *)
(* counted per kind of request.                                            *)
(***************************************************************************)
SwPatchRequests == {"update-hosts", "query-hosts"}

\* The poll answers: no answer, no entry, or one entry of any kind.
SwPatchPollResponses == {r \in SwPatchResponses : Len(r.result_data) <= 1}

InitSwPatchPoll ==
    /\ now = StartMs
    /\ host_table = [h \in HostNames |->
                        [present |-> TRUE,
                         kubelet_matches_at |-> IF h = "w-0" THEN 70 ELSE 200]]
    /\ instance_table = <<>>
    /\ strategy = <<>>
    /\ \E host_names \in SwPatchTargetLists :
           step = SwPatchHostsStep_init(host_names)
    /\ stage = NewStage
    /\ pending = [r \in SwPatchRequests |-> 0]
    /\ calls = 0
    /\ shadow = <<>>
    /\ ghost = [event |-> NoName, event_data |-> NoName, op |-> NoName,
                request |-> NoName, response |-> NoResponse, issued |-> {},
                loads |-> 0, audited |-> FALSE, first_audit |-> 0]

SwPatchPollApply ==
    /\ step.name = "sw-patch-hosts"
    /\ stage.result = INITIAL
    /\ SetCur(RunApply(Cur, SwPatchHostsStep_apply(step)))
    /\ pending' = PollingIssue({"update-hosts"})
    /\ ghost' = [ghost EXCEPT !.event = "apply", !.issued = {"update-hosts"}]
    /\ UNCHANGED <<now, host_table, instance_table, strategy, shadow>>

SwPatchPollDispatch(event) ==
    LET out == SwPatchHostsStep_handle_event(step, event)
    IN  /\ step.name = "sw-patch-hosts"
        /\ stage.result = WAIT
        /\ step' = out.step
        /\ pending' = PollingIssue(out.queries)
        /\ ghost' = [ghost EXCEPT !.event = event, !.issued = out.queries,
                                  !.audited = @ \/ event = HOST_AUDIT]
        /\ UNCHANGED <<now, host_table, instance_table, stage, strategy,
                       calls, shadow>>

SwPatchPollHostAudit == SwPatchPollDispatch(HOST_AUDIT)

SwPatchPollOtherEvent == SwPatchPollDispatch(HOST_STATE_CHANGED)

\* The driver completes one outstanding request.
SwPatchPollCallback ==
    \E request \in SwPatchRequests, response \in SwPatchPollResponses :
        LET out == IF request = "update-hosts"
                   THEN SwPatchHostsStep_sw_patch_hosts_callback(step, response)
                   ELSE SwPatchHostsStep_query_hosts_callback(step, response)
        IN  /\ step.name = "sw-patch-hosts"
            /\ pending[request] > 0
            /\ request = "update-hosts" => response.result_data = <<>>
            /\ SetCur(RunEvent(Cur, out))
            /\ pending' = [pending EXCEPT ![request] = @ - 1]
            /\ ghost' = [ghost EXCEPT !.event = "callback",
                                      !.request = request,
                                      !.response = response,
                                      !.issued = {}]
            /\ UNCHANGED <<now, host_table, instance_table, strategy, shadow>>

\* The strategy is written out and read back while the step waits; the
\* requests in flight are lost.
SwPatchPollLoad ==
    /\ step.name = "sw-patch-hosts"
    /\ ghost.loads < MaxRehydrations
    /\ stage.result = WAIT
    /\ step' = SwPatchHostsStep_from_dict(SwPatchHostsStep_as_dict(step),
                                          host_table)
    /\ pending' = [r \in SwPatchRequests |-> 0]
    /\ ghost' = [ghost EXCEPT !.event = "load", !.issued = {},
                              !.loads = @ + 1, !.audited = FALSE]
    /\ UNCHANGED <<now, host_table, instance_table, stage, strategy, calls,
                   shadow>>

InitOnePoll == InitPolling \/ InitSwPatchPoll

NextOnePoll ==
    \/ NextPolling
    \/ SwPatchPollApply
    \/ SwPatchPollHostAudit
    \/ SwPatchPollOtherEvent
    \/ SwPatchPollCallback
    \/ SwPatchPollLoad

SpecOnePoll == InitOnePoll /\ [][NextOnePoll]_vars

(***************************************************************************)
(* Specification of the steps that keep state between events, saved and    *)
(* loaded while they run: unlock-hosts next to its copy that never is,     *)
(* sw-patch-hosts and fw-update-hosts with their completion maps, the      *)
(* polling steps, and reboot-hosts, swact-hosts and fw-update-abort-hosts. *)
(***************************************************************************)
InitRehydrate ==
    \/ InitUnlockRehydrate
    \/ InitFwSaved
    \/ InitOnePoll
    \/ InitTimedHosts

NextRehydrate ==
    \/ step.name = "unlock-hosts" /\ NextUnlockRehydrate
    \/ step.name = "fw-update-hosts" /\ NextFw
    \/ step.name = "fw-update-hosts" /\ FwSavedLoad
    \/ step.name \in PollingStepNames \cup {"sw-patch-hosts"} /\ NextOnePoll
    \/ step.name \in TimedHostsStepNames /\ NextTimedHosts

SpecRehydrate == InitRehydrate /\ [][NextRehydrate]_vars

(***************************************************************************)
(* Specification of a fw-update-hosts step with the history of its polls:  *)
(* the hosts the last handled audit polled and the times of the last two   *)
(* audits that polled.                                                     *)
(***************************************************************************)
InitFwPoll ==
    /\ now = StartMs
    /\ host_table = <<>>
    /\ instance_table = <<>>
    /\ strategy = <<>>
    /\ \E host_names \in FwHostLists : step = FwUpdateHostsStep_init(host_names)
    /\ stage = NewStage
    /\ pending = FwNoPolls
    /\ calls = 0
    /\ shadow = <<>>
    /\ ghost = [event |-> NoName, event_data |-> NoName,
                recorded |-> [h \in HostNames |-> NoName], attempts |-> 0,
                polled |-> {}, last_poll |-> -1, prev_poll |-> -1]

FwPollHostAudit ==
    LET out == FwUpdateHostsStep_handle_event(step, now, HOST_AUDIT, NoName)
    IN  /\ step.name = "fw-update-hosts"
        /\ stage.result = WAIT
        /\ \A h \in out.polls : pending[h] < MaxFwPolls
        /\ SetCur(RunEvent(Cur, Outcome(out.step, out.completes, 0, out.ret)))
        /\ pending' = FwIssue(out.polls)
        /\ ghost' = [ghost EXCEPT
               !.event = HOST_AUDIT,
               !.event_data = NoName,
               !.attempts = @ + Len(out.completes),
               !.polled = out.polls,
               !.last_poll = IF out.polls # {} THEN now ELSE @,
               !.prev_poll = IF out.polls # {} THEN ghost.last_poll ELSE @]
        /\ UNCHANGED <<now, host_table, instance_table, strategy, shadow>>

NextFwPoll ==
    \/ FwAdvance
    \/ FwApply
    \/ FwPollHostAudit
    \/ FwHostFwUpdateFailed
    \/ FwOtherEvent
    \/ FwCallback

SpecFwPoll == InitFwPoll /\ [][NextFwPoll]_vars

(***************************************************************************)
(* unlock-hosts over two target hosts that may leave the host table,       *)
(* rehydrated from its own dictionary or from one written before the       *)
(* retry keys existed.                                                     *)
(***************************************************************************)
RetryKeys == {"retry_count", "retry_delay"}

InitUnlockLoad ==
    /\ InitUnlock
    /\ step.host_names = <<"w-0", "w-1">>
    /\ step.retry_delay = MaxRetryDelay
    /\ host_table["w-1"] = [present |-> TRUE, admin |-> "unlocked",
                            oper |-> "enabled"]

\* The dictionary of a release that did not write the retry keys.
UnlockRehydrateOld ==
    /\ ghost.rehydrations < MaxRehydrations
    /\ LET data == UnlockHostsStep_as_dict(step)
           old == [k \in DOMAIN data \ RetryKeys |-> data[k]]
       IN  step' = UnlockHostsStep_from_dict(old, host_table)
    /\ ghost' = [ghost EXCEPT !.event = "rehydrate-old",
                              !.rehydrations = @ + 1,
                              !.dirty = @ \/ ~UnlockScratchInitial(step)]
    /\ UNCHANGED <<now, host_table, instance_table, stage, strategy, pending,
                   calls, shadow>>

NextUnlockLoad ==
    \/ UnlockApply
    \/ UnlockHostAudit
    \/ UnlockHostStateChanged
    \/ UnlockHostUnlockFailed
    \/ UnlockOtherEvent
    \/ UnlockRehydrate
    \/ UnlockRehydrateOld
    \/ TargetHostChange
    \/ HostDelete
    \/ Advance

SpecUnlockLoad == InitUnlockLoad /\ [][NextUnlockLoad]_vars

(***************************************************************************)
(* Kubernetes node taints (nfvi_plugins/clients/kubernetes_client.py).     *)
(* The cluster maps node names to nodes; a node carries spec.taints, a     *)
(* list of taints or None.  taint_node and untaint_node are a read_node    *)
(* request followed by a patch_node request, with no lock and no           *)
(* resourceVersion in the body: other calls can be answered in between.    *)
(* The API server is not part of the repository: it answers 404 for a node *)
(* the cluster does not have and stores the taint list of a patch.         *)
(***************************************************************************)
MaxTaints == 2
MaxKubeCalls == 2

NodeNames == {"controller-0", "controller-1"}

\* The callers of the client: driver work may run in more than one thread.
KubeThreads == {"t1", "t2"}

\* The taints of the calls and of the nodes: a taint, the same key and
\* effect with another value, the same key with another effect, and another
\* key.
Taints ==
    {[key |-> "services", value |-> "disabled", effect |-> "NoExecute"],
     [key |-> "services", value |-> "enabled", effect |-> "NoExecute"],
     [key |-> "services", value |-> "disabled", effect |-> "NoSchedule"],
     [key |-> "dedicated", value |-> "enabled", effect |-> "NoSchedule"]}

\* The (key, effect) pairs of these taints.
TaintKinds == {[key |-> taint.key, effect |-> taint.effect] : taint \in Taints}

NoNode == [present |-> FALSE, taints_is_none |-> TRUE, taints |-> <<>>]

\* Taints must be unique by key and effect.
TaintsUnique(taints) ==
    \A i, j \in 1..Len(taints) :
        (taints[i].key = taints[j].key /\ taints[i].effect = taints[j].effect)
            => i = j

TaintLists ==
    {taints \in UNION {[1..n -> Taints] : n \in 0..MaxTaints} :
        TaintsUnique(taints)}

NodeTaintSet(node) == {node.taints[i] : i \in 1..Len(node.taints)}

NOT_FOUND == 404

read_node(cluster, node_name, api_down) ==
    IF api_down THEN [status |-> 500, node |-> NoNode]
    ELSE IF ~cluster[node_name].present
         THEN [status |-> NOT_FOUND, node |-> NoNode]
         ELSE [status |-> 200, node |-> cluster[node_name]]

patch_node(cluster, node_name, taints) ==
    [cluster EXCEPT ![node_name] =
        [present |-> TRUE, taints_is_none |-> FALSE, taints |-> taints]]

\* What a call did: the cluster it leaves, the patches it sent, the
\* exception it raised and whether it returned a Result.
KubeOutcome(cluster, patches, raised, result) ==
    [cluster |-> cluster, patches |-> patches, raised |-> raised,
     result |-> result]

\* taint_node that appends its taint next to one with the same key and
\* effect and another value.
taint_node_second_value(response, cluster, node_name, effect, key, value) ==
    LET taints == response.node.taints
        new_taint == [key |-> key, value |-> value, effect |-> effect]
    IN  IF response.status = NOT_FOUND
        THEN KubeOutcome(cluster, 0, NoName, FALSE)
        ELSE IF response.status # 200
        THEN KubeOutcome(cluster, 0, "ApiException", FALSE)
        ELSE IF \E i \in 1..Len(taints) : taints[i] = new_taint
        THEN KubeOutcome(cluster, 0, NoName, TRUE)
        ELSE IF ~cluster[node_name].present
        THEN KubeOutcome(cluster, 1, "ApiException", FALSE)
        ELSE KubeOutcome(patch_node(cluster, node_name,
                                    Append(taints, new_taint)),
                         1, NoName, TRUE)

\* taint_node from the answer of its read_node on: `response` is that
\* answer, `cluster` the cluster when the patch arrives.  A patch of a node
\* deleted meanwhile is answered 404, which patch_node raises.
taint_node(response, cluster, node_name, effect, key, value) ==
    LET taints == response.node.taints
        matching == {i \in 1..Len(taints) :
                        taints[i].key = key /\ taints[i].effect = effect}
        first == IF matching = {} THEN 0
                 ELSE CHOOSE i \in matching : \A j \in matching : i <= j
        new_taint == [key |-> key, value |-> value, effect |-> effect]
    IN  IF response.status = NOT_FOUND
        THEN KubeOutcome(cluster, 0, NoName, FALSE)
        ELSE IF response.status # 200
        THEN KubeOutcome(cluster, 0, "ApiException", FALSE)
        ELSE IF first # 0 /\ taints[first].value # value
        THEN KubeOutcome(cluster, 0, "Exception", FALSE)
        ELSE IF first # 0
        THEN KubeOutcome(cluster, 0, NoName, TRUE)
        ELSE IF ~cluster[node_name].present
        THEN KubeOutcome(cluster, 1, "ApiException", FALSE)
        ELSE KubeOutcome(patch_node(cluster, node_name,
                                    Append(taints, new_taint)),
                         1, NoName, TRUE)

\* untaint_node from the answer of its read_node on.
untaint_node(response, cluster, node_name, effect, key) ==
    LET taints == response.node.taints
        remove_taint == \E i \in 1..Len(taints) :
                            taints[i].key = key /\ taints[i].effect = effect
        updated_taints == SelectSeq(taints,
                              LAMBDA taint : taint.key # key \/
                                             taint.effect # effect)
    IN  IF response.status # 200
        THEN KubeOutcome(cluster, 0, "ApiException", FALSE)
        ELSE IF ~remove_taint
        THEN KubeOutcome(cluster, 0, NoName, TRUE)
        ELSE IF ~cluster[node_name].present
        THEN KubeOutcome(cluster, 1, "ApiException", FALSE)
        ELSE KubeOutcome(patch_node(cluster, node_name, updated_taints),
                         1, NoName, TRUE)

\* delete_node is one request; a 404 answer is ignored.
delete_node(cluster, node_name, api_down) ==
    IF api_down
    THEN KubeOutcome(cluster, 0, "ApiException", FALSE)
    ELSE IF ~cluster[node_name].present
    THEN KubeOutcome(cluster, 0, NoName, FALSE)
    ELSE KubeOutcome([cluster EXCEPT ![node_name] = NoNode], 0, NoName, TRUE)

(***************************************************************************)
(* Specification of the taint calls: controller-0 is a node of the cluster *)
(* with any taints, controller-1 is known to the VIM only.  host_table     *)
(* holds the cluster, pending the call each thread is in between its read  *)
(* and its patch, calls the number of calls started, ghost the call that   *)
(* ended last.                                                             *)
(***************************************************************************)
NoKubeResponse == [status |-> 0, node |-> NoNode]

KubeIdle == [op |-> NoName, node_name |-> NoName, effect |-> NoName,
             key |-> NoName, value |-> NoName, response |-> NoKubeResponse]

NoKubeCall == [op |-> NoName, node_name |-> NoName, effect |-> NoName,
               key |-> NoName, before |-> NoNode, undisturbed |-> TRUE,
               patches |-> 0, raised |-> NoName, result |-> FALSE]

\* The record of a call that ends; `before` is the node a taint_node found
\* when it ended, `undisturbed` that the node was then as the call read it.
KubeCall(c, before, out) ==
    [op |-> c.op, node_name |-> c.node_name, effect |-> c.effect,
     key |-> c.key, before |-> before,
     undisturbed |-> (c.response.node = host_table[c.node_name]),
     patches |-> out.patches, raised |-> out.raised, result |-> out.result]

InitTaints ==
    /\ now = StartMs
    /\ instance_table = <<>>
    /\ step = <<>>
    /\ stage = <<>>
    /\ \E taints \in TaintLists, is_none \in BOOLEAN :
          /\ is_none => taints = <<>>
          /\ host_table = [n \in NodeNames |->
                IF n = "controller-0"
                THEN [present |-> TRUE, taints_is_none |-> is_none,
                      taints |-> taints]
                ELSE NoNode]
    /\ strategy = <<>>
    /\ pending = [t \in KubeThreads |-> KubeIdle]
    /\ calls = 0
    /\ shadow = <<>>
    /\ ghost = NoKubeCall

\* The call that ended last was taint_node(node_name, effect, key, ...).
FollowsTaint(node_name, effect, key) ==
    /\ ghost.op = "taint_node"
    /\ ghost.node_name = node_name
    /\ ghost.effect = effect
    /\ ghost.key = key

\* Thread t is free to enter a call; of two free threads the first one
\* takes it.
KubeThreadFree(t) ==
    /\ pending[t].op = NoName
    /\ calls < MaxKubeCalls
    /\ t = "t2" => pending["t1"].op # NoName

\* A thread enters taint_node and has its read_node answered.
TaintNodeRead ==
    \E t \in KubeThreads, node_name \in NodeNames, taint \in Taints,
       api_down \in BOOLEAN :
        /\ KubeThreadFree(t)
        /\ pending' = [pending EXCEPT ![t] =
              [op |-> "taint_node", node_name |-> node_name,
               effect |-> taint.effect, key |-> taint.key,
               value |-> taint.value,
               response |-> read_node(host_table, node_name, api_down)]]
        /\ calls' = calls + 1
        /\ UNCHANGED <<now, host_table, instance_table, step, stage,
                       strategy, shadow, ghost>>

\* A thread enters untaint_node and has its read_node answered.
UntaintNodeRead ==
    \E t \in KubeThreads, node_name \in NodeNames, kind \in TaintKinds,
       api_down \in BOOLEAN :
        /\ KubeThreadFree(t)
        /\ pending' = [pending EXCEPT ![t] =
              [op |-> "untaint_node", node_name |-> node_name,
               effect |-> kind.effect, key |-> kind.key, value |-> NoName,
               response |-> read_node(host_table, node_name, api_down)]]
        /\ calls' = calls + 1
        /\ UNCHANGED <<now, host_table, instance_table, step, stage,
                       strategy, shadow, ghost>>

\* The rest of taint_node: the scan of the taints read and the patch.
TaintNodePatch ==
    \E t \in KubeThreads :
        LET c == pending[t]
            out == taint_node(c.response, host_table, c.node_name, c.effect,
                              c.key, c.value)
        IN  /\ c.op = "taint_node"
            /\ host_table' = out.cluster
            /\ pending' = [pending EXCEPT ![t] = KubeIdle]
            /\ ghost' = KubeCall(c, host_table[c.node_name], out)
            /\ UNCHANGED <<now, instance_table, step, stage, strategy,
                           calls, shadow>>

\* The rest of untaint_node.
UntaintNodePatch ==
    \E t \in KubeThreads :
        LET c == pending[t]
            out == untaint_node(c.response, host_table, c.node_name,
                                c.effect, c.key)
        IN  /\ c.op = "untaint_node"
            /\ host_table' = out.cluster
            /\ pending' = [pending EXCEPT ![t] = KubeIdle]
            /\ ghost' = KubeCall(c, NoNode, out)
            /\ UNCHANGED <<now, instance_table, step, stage, strategy,
                           calls, shadow>>

DeleteNode ==
    \E t \in KubeThreads, node_name \in NodeNames, api_down \in BOOLEAN :
        LET out == delete_node(host_table, node_name, api_down)
            c == [KubeIdle EXCEPT !.op = "delete_node",
                                  !.node_name = node_name,
                                  !.response = [status |-> 200,
                                                node |-> host_table[node_name]]]
        IN  /\ KubeThreadFree(t)
            /\ host_table' = out.cluster
            /\ calls' = calls + 1
            /\ ghost' = KubeCall(c, NoNode, out)
            /\ UNCHANGED <<now, instance_table, step, stage, strategy,
                           pending, shadow>>

NextTaints ==
    \/ TaintNodeRead
    \/ TaintNodePatch
    \/ UntaintNodeRead
    \/ UntaintNodePatch
    \/ DeleteNode

SpecTaints == InitTaints /\ [][NextTaints]_vars

(***************************************************************************)
(* Properties of unlock-hosts.                                             *)
(***************************************************************************)

\* C1 (as stated): the unlock invocations that include a target host, the
\* one of apply plus the re-issues of handle_event, number at most
\* 1 + retry_count.
C1_AttemptsAtMostOnePlusRetryCount ==
    Len(step.host_names) > 0 => calls <= 1 + step.retry_count

\* C1 (amended): every HOST_UNLOCK_FAILED that requests a retry consumes one
\* retry of the failing host only, and each re-issue names all targets, so
\* the invocations that include a host number at most
\* 1 + retry_count * (number of targets); 1 + retry_count for one target.
C1_AttemptsAtMostOnePlusRetriesOfAllTargets ==
    calls <= 1 + step.retry_count * Len(step.host_names)

C1_Witness ==
    /\ Len(step.host_names) = 2
    /\ step.retry_count >= 1
    /\ calls = 1 + step.retry_count * Len(step.host_names)

\* C2: an unlock is re-issued only while handling HOST_AUDIT or
\* HOST_STATE_CHANGED, and only when at least retry_delay seconds have
\* passed since the most recent HOST_UNLOCK_FAILED that requested a retry.
C2_RetryOnlyAfterDelay ==
    [][(stage.result # INITIAL /\ calls' > calls) =>
          /\ ghost'.event \in {HOST_AUDIT, HOST_STATE_CHANGED}
          /\ ghost.retry_at >= 0
          /\ now - ghost.retry_at >= step.retry_delay * 1000]_vars

C2_Witness ==
    /\ ghost.event = HOST_AUDIT
    /\ ghost.retry_at >= 0
    /\ step.retry_delay >= 1
    /\ ~step.retry_requested
    /\ calls = 2
    /\ now - ghost.retry_at >= step.retry_delay * 1000

\* The dictionary a step of the specification writes.
RehydrateStep_as_dict(stp) ==
    CASE stp.name = "unlock-hosts" -> UnlockHostsStep_as_dict(stp)
      [] stp.name = "sw-patch-hosts" -> SwPatchHostsStep_as_dict(stp)
      [] stp.name = "fw-update-hosts" -> FwUpdateHostsStep_as_dict(stp)
      [] stp.name \in TimedHostsStepNames -> TimedHostsStep_as_dict(stp)
      [] OTHER -> PollingStep_as_dict(stp)

\* The scratch of a step, which as_dict does not write: the retry counters
\* and the pending retry of unlock-hosts, wait_time, query_inprogress.
StepScratchInitial(stp) ==
    /\ stp.name = "unlock-hosts" => UnlockScratchInitial(stp)
    /\ "wait_time" \in DOMAIN stp => stp.wait_time = 0
    /\ "query_inprogress" \in DOMAIN stp => ~stp.query_inprogress

\* monitoring_fw_update of fw-update-hosts is written by handle_event and
\* read by nothing but its log line; two steps that differ in it alone act
\* alike.
StepsActAlike(stp1, stp2) ==
    IF stp1.name = "fw-update-hosts"
    THEN [stp1 EXCEPT !.monitoring_fw_update = FALSE]
             = [stp2 EXCEPT !.monitoring_fw_update = FALSE]
    ELSE stp1 = stp2

\* This step of the specification loads the saved step, and every target
\* of the step is in the host table.
StepRehydrated ==
    /\ ghost'.event \in {"load", "rehydrate"}
    /\ "host_names" \in DOMAIN step
           => \A i \in 1..Len(step.host_names) :
                  host_table_get(host_table, step.host_names[i]) # NoHost

RehydratedCompletionMap ==
    /\ step.name \in {"sw-patch-hosts", "fw-update-hosts"}
    /\ ghost.event = "load"
    /\ step.host_names = <<"w-0", "w-1">>
    /\ DOMAIN step.host_completed = {"w-0", "w-1"}
    /\ step.host_completed["w-0"][1]
    /\ ~step.host_completed["w-1"][1]

RehydratedPollingStep ==
    /\ step.name \in PollingStepNames
    /\ ghost.event = "load"
    /\ ghost.audited = FALSE
    /\ stage.result = WAIT

LockTargetsLockedDisabled(tbl) ==
    \A i \in 1..Len(step.host_names) :
        /\ host_table_get(tbl, step.host_names[i]) # NoHost
        /\ host_is_locked(host_table_get(tbl, step.host_names[i]))
        /\ host_is_disabled(host_table_get(tbl, step.host_names[i]))

\* C3: when a lock-hosts step with wait_until_disabled = true ends with
\* SUCCESS, by apply or by step_complete from handle_event, every target
\* host is locked and disabled in the host table at that moment.
C3_LockSuccessImpliesLockedDisabled ==
    [][(step.wait_until_disabled /\ stage.result # SUCCESS
           /\ stage'.result = SUCCESS)
         => LockTargetsLockedDisabled(host_table')]_vars

(***************************************************************************)
(* Properties of migrate-instances and stop-instances.                     *)
(***************************************************************************)
SourceHostsEmpty(tbl) ==
    \A u \in DOMAIN step.instance_host_names :
        \A v \in InstanceUuids :
            ~(tbl[v].present /\ tbl[v].host_name = step.instance_host_names[u])

\* C4: when a migrate-instances step ends with SUCCESS, by apply or by
\* step_complete from handle_event, no instance remains in the instance
\* table on any host captured as a source host when the step was created.
C4_MigrateSuccessImpliesSourceHostsEmpty ==
    [][(step.name = "migrate-instances" /\ stage.result # SUCCESS
           /\ stage'.result = SUCCESS)
         => SourceHostsEmpty(instance_table')]_vars

SomeInstanceMoved(tbl) ==
    \E i \in 1..Len(step.instances) :
        tbl[step.instances[i]].host_name
            # step.instance_host_names[step.instances[i]]

MovedReasons(tbl) ==
    {<<"instance", step.instances[i], "has moved from",
       step.instance_host_names[step.instances[i]], "to",
       tbl[step.instances[i]].host_name, "after strategy created">> :
        i \in {j \in 1..Len(step.instances) :
                  tbl[step.instances[j]].host_name
                      # step.instance_host_names[step.instances[j]]}}

StepAlreadySatisfied(tbl) ==
    IF step.name = "migrate-instances"
    THEN SourceHostsEmpty(tbl)
    ELSE \A i \in 1..Len(step.instance_uuids) :
             /\ tbl[step.instance_uuids[i]].present
             /\ tbl[step.instance_uuids[i]].admin = "locked"
             /\ tbl[step.instance_uuids[i]].oper = "disabled"

\* C5 (as stated): if at apply time a captured instance is on another host
\* than the one captured at creation, apply returns FAILED with the reason
\* "instance <i> has moved from <captured> to <current>" and the
\* instance-director is not invoked.
C5_MovedInstanceFailsApply ==
    [][(stage.result = INITIAL /\ stage'.result # INITIAL
           /\ SomeInstanceMoved(instance_table))
         => /\ stage'.result = FAILED
            /\ stage'.reason \in MovedReasons(instance_table)
            /\ calls' = calls]_vars

\* C5 (amended): the same, unless the step's completion rule already holds
\* at apply time (migrate: no instance on any captured source host; stop:
\* every captured instance locked and disabled); apply then returns SUCCESS;
\* in both cases the instance-director is not invoked.
C5_MovedInstanceFailsApplyUnlessSatisfied ==
    [][(stage.result = INITIAL /\ stage'.result # INITIAL
           /\ SomeInstanceMoved(instance_table))
         => /\ calls' = calls
            /\ IF StepAlreadySatisfied(instance_table)
               THEN stage'.result = SUCCESS
               ELSE /\ stage'.result = FAILED
                    /\ stage'.reason \in MovedReasons(instance_table)]_vars

C5_Witness ==
    /\ ghost.event = "apply"
    /\ stage.result = FAILED
    /\ stage.reason = <<"instance", "i-0", "has moved from", "w-0", "to",
                        "w-1", "after strategy created">>
    /\ calls = 0

(***************************************************************************)
(* Properties of the alarm steps.                                          *)
(***************************************************************************)
\* The reported alarms that survive the ignore list and the relaxed filter.
ResidualAlarms ==
    SelectSeq(ghost.reported,
              LAMBDA a : /\ ~\E i \in 1..Len(step.ignore_alarms) :
                               step.ignore_alarms[i] = a.alarm_id
                         /\ ~(strategy.alarm_restrictions = "relaxed"
                                /\ a.mgmt_affecting = "False"))

\* C6: once every query callback of a query-alarms step with fail_on_alarms
\* has been delivered, in whatever order, the step is FAILED if the residual
\* alarm list is non-empty and SUCCESS only if it is empty.
C6_FailedIffResidualNonEmpty ==
    (/\ step.name = "query-alarms"
     /\ step.fail_on_alarms
     /\ ghost.delivered # {}
     /\ pending = {})
        => /\ ResidualAlarms # <<>> => stage.result = FAILED
           /\ stage.result = SUCCESS => ResidualAlarms = <<>>

Scenario6Alarms ==
    {[alarm_id |-> "100.101", mgmt_affecting |-> "False"],
     [alarm_id |-> "200.005", mgmt_affecting |-> "True"]}

Scenario6 ==
    /\ step.name = "query-alarms"
    /\ step.fail_on_alarms
    /\ step.ignore_alarms = <<"200.005">>
    /\ strategy.alarm_restrictions = "relaxed"
    /\ SeqToSet(ghost.reported) = Scenario6Alarms
    /\ ~ghost.incomplete
    /\ stage.result \in {SUCCESS, FAILED}

\* C7: under relaxed no alarm with mgmt_affecting "False" is in
\* strategy.nfvi_alarms, whatever the ignore list; under strict
\* strategy.nfvi_alarms is exactly the reported alarms whose id is not in
\* the ignore list; and the relaxed alarm gate of scenario 6 ends SUCCESS.
C7_RelaxedDropsNonMgmtAffecting ==
    /\ strategy.alarm_restrictions = "relaxed"
           => \A i \in 1..Len(strategy.nfvi_alarms) :
                  strategy.nfvi_alarms[i].mgmt_affecting # "False"
    /\ strategy.alarm_restrictions = "strict"
           => strategy.nfvi_alarms
                  = SelectSeq(ghost.reported,
                              LAMBDA a : ~\E i \in 1..Len(step.ignore_alarms) :
                                             step.ignore_alarms[i] = a.alarm_id)
    /\ Scenario6 => stage.result = SUCCESS

C7_Witness ==
    /\ Scenario6
    /\ stage.result = SUCCESS
    /\ ghost.delivered = {"platform", "openstack"}

(***************************************************************************)
(* Properties of fw-update-hosts.                                          *)
(***************************************************************************)
\* C10 (as stated): abort() returns one fw-update-abort-hosts step over the
\* target hosts whose firmware update has not been recorded as completed,
\* so that w-0 completed and w-1 failed give fw-update-abort-hosts([w-1]).
C10_AbortNamesHostsNotCompleted ==
    shadow # <<>>
        => /\ Len(shadow) = 1
           /\ shadow[1].name = "fw-update-abort-hosts"
           /\ shadow[1].host_names
                  = SelectSeq(step.host_names,
                              LAMBDA h : ghost.recorded[h]
                                  \notin {DEVICE_IMAGE_UPDATE_COMPLETED,
                                          DEVICE_IMAGE_UPDATE_NULL})

\* C10 (amended): abort() returns one fw-update-abort-hosts step over the
\* target hosts the step holds -- those that were in the host table when
\* the step was built or last loaded --, in order, for which polling has
\* recorded no final state (neither completed nor failed).
C10_AbortNamesHostsWithoutFinalState ==
    shadow # <<>>
        => /\ Len(shadow) = 1
           /\ shadow[1].name = "fw-update-abort-hosts"
           /\ shadow[1].host_names
                  = SelectSeq(step.host_names,
                              LAMBDA h : /\ h \in ghost.live
                                         /\ ghost.recorded[h] = NoName)

\* The same over all targets, whether the step still holds them or not.
AbortNamesTargetsWithoutFinalState ==
    shadow # <<>>
        => shadow[1].host_names
               = SelectSeq(step.host_names,
                           LAMBDA h : ghost.recorded[h] = NoName)

C10_Witness ==
    /\ step.host_names = <<"w-0", "w-1">>
    /\ ghost.recorded["w-0"] = DEVICE_IMAGE_UPDATE_COMPLETED
    /\ ghost.recorded["w-1"] = DEVICE_IMAGE_UPDATE_FAILED
    /\ ghost.event = "abort"
    /\ shadow[1].host_names = <<>>

(***************************************************************************)
(* Properties of the stage.                                                *)
(***************************************************************************)
\* C8: at most one terminal decision takes effect: once the stage holds
\* SUCCESS or FAILED for the step, no later step_complete call changes the
\* recorded result or reason, and the stage is completed at most once.
C8_FirstTerminalDecisionWins ==
    [][/\ stage.result \in {SUCCESS, FAILED} => stage' = stage
       /\ stage'.completions <= 1]_vars

C8_Witness ==
    /\ step.name = "query-alarms"
    /\ ghost.attempts = 2
    /\ stage.completions = 1
    /\ stage.result = SUCCESS
    /\ strategy.nfvi_alarms # <<>>

FwTargets == SeqToSet(step.host_names)

FwReportedSuccessful(rec, h) ==
    rec[h] \in {DEVICE_IMAGE_UPDATE_COMPLETED, DEVICE_IMAGE_UPDATE_NULL}

FwReportedFailed(rec, h) == rec[h] # NoName /\ ~FwReportedSuccessful(rec, h)

SwPatchTargets == SeqToSet(step.host_names)

SwPatchFailedReason(h) == <<"software update failed to apply on host", h>>

\* The targets a completed poll response reports patch_failed.
SwPatchReportedFailed(response) ==
    {h \in SwPatchTargets :
        \E i \in 1..Len(response.result_data) :
            /\ response.result_data[i].name = h
            /\ response.result_data[i].patch_failed}

\* The last entry of the response that decides about host h, 0 if none.
SwPatchLastDecisive(response, h) ==
    LET at == {i \in 1..Len(response.result_data) :
                  /\ response.result_data[i].name = h
                  /\ \/ response.result_data[i].patch_failed
                     \/ response.result_data[i].patch_current}
    IN  IF at = {} THEN 0 ELSE CHOOSE i \in at : \A j \in at : j <= i

SwPatchPollDelivered ==
    /\ step.name = "sw-patch-hosts"
    /\ stage.result = WAIT
    /\ ghost'.event = "query-callback"
    /\ ghost'.response.completed

KubeletTargets == SeqToSet(step.host_names)

\* C13: a waiting kube-host-upgrade-kubelet step completes SUCCESS on a poll
\* response only if the list shows kubelet_version = to_version for every
\* target, hence not before every target has reached that version (with
\* w-0 matching after 70 s and w-1 after 200 s, not before 200 s); and a
\* KUBE_HOST_UPGRADE_KUBELET_FAILED event for a target completes it FAILED.
C13_KubeletSuccessOnlyWhenAllMatch ==
    [][(step.name = "kube-host-upgrade-kubelet" /\ stage.result = WAIT)
         => /\ (ghost'.event = "callback" /\ stage'.result = SUCCESS)
                   => \A h \in KubeletTargets :
                          /\ \E i \in 1..Len(ghost'.response.result_data) :
                                 /\ ghost'.response.result_data[i].host_uuid
                                        = host_uuid(h)
                                 /\ ghost'.response.result_data[i].kubelet_version
                                        = strategy.to_version
                          /\ now - StartMs
                                 >= host_table[h].kubelet_matches_at * 1000
            /\ (/\ ghost'.event = KUBE_HOST_UPGRADE_KUBELET_FAILED
                /\ ghost'.event_data \in KubeletTargets)
                   => stage'.result = FAILED]_vars

\* What holds with loads: the poll shows at to_version every host whose
\* uuid the step holds, which are all targets until a load drops one that
\* left the host table.
KubeletSuccessOnlyWhenAllHeldMatch ==
    [][(step.name = "kube-host-upgrade-kubelet" /\ stage.result = WAIT)
         => /\ (ghost'.event = "callback" /\ stage'.result = SUCCESS)
                   => \A n \in 1..Len(step.host_uuids) :
                          \E i \in 1..Len(ghost'.response.result_data) :
                              /\ ghost'.response.result_data[i].host_uuid
                                     = step.host_uuids[n]
                              /\ ghost'.response.result_data[i].kubelet_version
                                     = strategy.to_version
            /\ (ghost.loads = 0 => Len(step.host_uuids) = Len(step.host_names))
            /\ (/\ ghost'.event = KUBE_HOST_UPGRADE_KUBELET_FAILED
                /\ ghost'.event_data \in KubeletTargets)
                   => stage'.result = FAILED]_vars

(***************************************************************************)
(* Properties of system-stabilize.                                         *)
(***************************************************************************)
\* C14: system-stabilize.apply returns WAIT; while it waits a
\* HOST_STATE_CHANGED or INSTANCE_STATE_CHANGED event completes it FAILED and
\* every other event leaves it as it is with handle_event returning False;
\* at the deadline its timeout policy gives SUCCESS, and it is the only
\* step kind whose timeout policy gives anything but FAILED.
C14_StabilizeWaitsUntilTimeout ==
    [][/\ (step.name = "system-stabilize" /\ ghost'.event = "apply"
             /\ stage.result = INITIAL)
           => stage'.result = WAIT
       /\ (step.name = "system-stabilize" /\ stage.result = WAIT
             /\ ghost'.event \in {HOST_STATE_CHANGED, INSTANCE_STATE_CHANGED})
           => stage'.result = FAILED
       /\ (step.name = "system-stabilize" /\ stage.result = WAIT
             /\ ghost'.event \in StabilizeEvents
                    \ {HOST_STATE_CHANGED, INSTANCE_STATE_CHANGED})
           => /\ ghost'.ret = FALSE
              /\ stage' = stage
              /\ step' = step
       /\ (stage.result = WAIT /\ ghost'.event = "timeout")
           => /\ now - ghost.applied_at >= step.timeout_in_secs * 1000
              /\ IF step.name = "system-stabilize"
                 THEN stage'.result = SUCCESS
                 ELSE stage'.result = FAILED]_vars

C14_Witness ==
    /\ step.name = "system-stabilize"
    /\ ghost.event = "timeout"
    /\ stage.result = SUCCESS
    /\ now - ghost.applied_at >= 60000

(***************************************************************************)
(* Properties of apply on a fleet that needs nothing done.                 *)
(***************************************************************************)
FleetHostsSatisfy(P(_)) ==
    \A i \in 1..Len(step.host_names) :
        /\ host_table[step.host_names[i]].present
        /\ P(host_table[step.host_names[i]])

FleetInstancesSatisfy(P(_)) ==
    \A i \in 1..Len(step.instance_uuids) :
        /\ instance_table[step.instance_uuids[i]].present
        /\ P(instance_table[step.instance_uuids[i]])

FleetAlreadySatisfied ==
    CASE step.name = "unlock-hosts" ->
             FleetHostsSatisfy(LAMBDA h : h.admin = "unlocked"
                                           /\ h.oper = "enabled")
      [] step.name = "lock-hosts" ->
             FleetHostsSatisfy(LAMBDA h : /\ h.admin = "locked"
                                          /\ (step.wait_until_disabled
                                                  => h.oper = "disabled"))
      [] step.name = "start-instances" ->
             FleetInstancesSatisfy(LAMBDA r : r.oper = "enabled")
      [] step.name = "stop-instances" ->
             FleetInstancesSatisfy(LAMBDA r : r.admin = "locked"
                                               /\ r.oper = "disabled")
      [] step.name = "migrate-instances" ->
             \A i \in 1..Len(step.instance_uuids) :
                 \A v \in InstanceUuids :
                     ~(/\ instance_table[v].present
                       /\ instance_table[v].host_name
                              = step.instance_host_names[step.instance_uuids[i]])

\* C15: apply of unlock-hosts, lock-hosts, start-instances, stop-instances or
\* migrate-instances on a fleet that already satisfies the step's completion
\* rule returns SUCCESS and calls no director.
C15_SatisfiedApplyIsSuccessWithoutCall ==
    [][(stage.result = INITIAL /\ ghost'.event = "apply"
           /\ FleetAlreadySatisfied)
       => /\ stage'.result = SUCCESS
          /\ calls' = calls
          /\ step' = step]_vars

C15_Witness ==
    /\ step.name = "start-instances"
    /\ Len(step.instance_uuids) = 2
    /\ FleetAlreadySatisfied
    /\ ghost.event = "apply"
    /\ stage.result = SUCCESS
    /\ calls = 0

(***************************************************************************)
(* Properties of a step applied again after it completed.                  *)
(***************************************************************************)
RerunTargetsSatisfy(P(_)) ==
    \A i \in 1..Len(step.host_names) :
        /\ host_table[step.host_names[i]].present
        /\ P(host_table[step.host_names[i]])

RerunCompletionHolds ==
    CASE step.name = "upgrade-hosts" ->
             RerunTargetsSatisfy(LAMBDA h : /\ h.online
                                            /\ h.target_load = "21.12"
                                            /\ h.software_load = "21.12")
      [] step.name = "disable-host-services" ->
             RerunTargetsSatisfy(LAMBDA h :
                 h.host_service_state[step.service] = "disabled")
      [] step.name = "enable-host-services" ->
             RerunTargetsSatisfy(LAMBDA h :
                 h.host_service_state[step.service] = "enabled")

\* C16: applying a step again after it completed successfully, while its
\* completion condition still holds, calls no driver or director and
\* returns SUCCESS.
C16_RerunOfCompletedStepIsNoOp ==
    [][(stage.result = SUCCESS /\ ghost'.reruns = ghost.reruns + 1
           /\ RerunCompletionHolds)
       => /\ calls' = calls
          /\ stage'.result = SUCCESS]_vars

(***************************************************************************)
(* Properties of the completion callbacks.                                 *)
(***************************************************************************)
\* C17: a completion callback delivered with completed = false completes
\* the step FAILED, and the failure reason recorded for the step is the
\* reason of the callback, unchanged.
C17_CallbackFailureReasonPropagated ==
    [][(pending # {} /\ pending' = {} /\ ~ghost'.response.completed)
       => /\ stage'.result = FAILED
          /\ stage'.reason = ghost'.response.reason]_vars

(***************************************************************************)
(* Properties of the events a host-targeted step discards.                 *)
(***************************************************************************)
HostStepEvents ==
    {HOST_STATE_CHANGED, HOST_AUDIT, HOST_LOCK_FAILED, HOST_UNLOCK_FAILED,
     HOST_FW_UPDATE_FAILED, HOST_UPGRADE_FAILED, DISABLE_HOST_SERVICES_FAILED,
     ENABLE_HOST_SERVICES_FAILED, KUBE_HOST_UPGRADE_KUBELET_FAILED,
     HOST_REBOOT_FAILED, HOST_SWACT_FAILED, HOST_FW_UPDATE_ABORT_FAILED,
     KUBE_HOST_UPGRADE_CONTROL_PLANE_FAILED,
     INSTANCE_STATE_CHANGED, INSTANCE_AUDIT}

\* The failure event of the step's own operation.
HostStepFailedEvent ==
    CASE step.name = "unlock-hosts" -> HOST_UNLOCK_FAILED
      [] step.name = "lock-hosts" -> HOST_LOCK_FAILED
      [] step.name = "fw-update-hosts" -> HOST_FW_UPDATE_FAILED
      [] step.name = "upgrade-hosts" -> HOST_UPGRADE_FAILED
      [] step.name = "disable-host-services" -> DISABLE_HOST_SERVICES_FAILED
      [] step.name = "enable-host-services" -> ENABLE_HOST_SERVICES_FAILED
      [] step.name = "kube-host-upgrade-kubelet" ->
             KUBE_HOST_UPGRADE_KUBELET_FAILED
      [] step.name = "kube-host-upgrade-control-plane" ->
             KUBE_HOST_UPGRADE_CONTROL_PLANE_FAILED
      [] step.name \in TimedHostsStepNames -> TimedHostsStep_failed_event(step)

\* The event kinds the step has a branch for.
HostStepHandledEvents ==
    {HostStepFailedEvent, HOST_AUDIT}
        \cup IF step.name \in {"unlock-hosts", "lock-hosts",
                               "disable-host-services", "enable-host-services"}
             THEN {HOST_STATE_CHANGED} ELSE {}

\* An event of a kind the step does not handle, about anything, or the
\* step's failure event about a host that is not one of its targets.
HostStepDiscardedEvents ==
    {ev \in HostStepEvents \X (HostNames \cup {NoName}) :
        \/ ev[1] \notin HostStepHandledEvents
        \/ /\ ev[1] = HostStepFailedEvent
           /\ ev[2] \notin SeqToSet(step.host_names)}

\* What the step's handle_event does with the event now.
HostStepHandleEvent(event, event_data, op) ==
    CASE step.name = "unlock-hosts" ->
             UnlockHostsStep_handle_event(step, host_table, now, event,
                                          event_data, op)
      [] step.name = "lock-hosts" ->
             LockHostsStep_handle_event(step, host_table, now, event,
                                        event_data)
      [] step.name = "fw-update-hosts" ->
             LET out == FwUpdateHostsStep_handle_event(step, now, event,
                                                       event_data)
             IN  Outcome(out.step, out.completes, Cardinality(out.polls),
                         out.ret)
      [] step.name = "kube-host-upgrade-kubelet" ->
             LET out == KubeHostUpgradeKubeletStep_handle_event(
                            step, strategy, now, event, event_data)
             IN  Outcome(out.step, out.completes, Cardinality(out.queries),
                         out.ret)
      [] step.name = "kube-host-upgrade-control-plane" ->
             LET out == KubeHostUpgradeControlPlaneStep_handle_event(
                            step, strategy, now, event, event_data)
             IN  Outcome(out.step, out.completes, Cardinality(out.queries),
                         out.ret)
      [] step.name = "reboot-hosts" ->
             RebootHostsStep_handle_event(step, now, event, event_data)
      [] step.name = "swact-hosts" ->
             SwactHostsStep_handle_event(step, now, event, event_data)
      [] step.name = "fw-update-abort-hosts" ->
             FwUpdateAbortHostsStep_handle_event(step, event, event_data)
      [] step.name = "upgrade-hosts" ->
             UpgradeHostsStep_handle_event(step, host_table, strategy, now,
                                           event, event_data)
      [] step.name = "disable-host-services" ->
             DisableHostServicesStep_handle_event(step, host_table, event,
                                                  event_data)
      [] step.name = "enable-host-services" ->
             EnableHostServicesStep_handle_event(step, host_table, event,
                                                 event_data)

\* C18: a host-targeted step that waits discards its failure event about a
\* host that is not one of its targets and every event of a kind it does
\* not handle: handle_event returns False, calls no step_complete and no
\* director, and leaves every field of the step as it is.
C18_ForeignEventsAreDiscarded ==
    stage.result = WAIT
        => \A ev \in HostStepDiscardedEvents, op \in OperationStates :
               HostStepHandleEvent(ev[1], ev[2], op)
                   = Outcome(step, <<>>, 0, FALSE)

C18_Witness ==
    /\ step.name = "fw-update-hosts"
    /\ stage.result = WAIT
    /\ step.wait_time # 0
    /\ ghost.event = HOST_FW_UPDATE_FAILED
    /\ ghost.event_data \in HostNames \ SeqToSet(step.host_names)
    /\ <<ghost.event, ghost.event_data>> \in HostStepDiscardedEvents

(***************************************************************************)
(* Properties of a step that is loaded again.                              *)
(***************************************************************************)
\* The entities the rebuilt step holds objects of.
SavedLiveSet(stp) ==
    IF stp.name = "start-instances"
    THEN SeqToSet(stp.instances) ELSE SeqToSet(stp.hosts)

SavedInTable(e) ==
    IF step.name = "start-instances"
    THEN instance_table[e].present ELSE host_table[e].present

\* C19: loading a saved step that names an entity which has left the table
\* succeeds, keeps that entity out of the objects the step holds, and keeps
\* the saved entity names: the step loaded reports the entity_names of the
\* dictionary it was loaded from.
C19_LoadPreservesEntityNames ==
    [][(ghost'.loads = ghost.loads + 1)
       => /\ \A e \in SavedLiveSet(step') : SavedInTable(e)
          /\ SavedStep_as_dict(step').entity_names = pending.entity_names]_vars

(***************************************************************************)
(* Properties of the command line client.                                  *)
(***************************************************************************)
ShellUnknownCommand ==
    step.argv.cmd_area \notin CmdAreas \/ step.argv.cmd \notin Cmds

\* The command is known and the parser rejects its options.
ShellBadOptions ==
    /\ ~ShellUnknownCommand
    /\ ~parse_args(step.argv).ok

ShellAuthMissing ==
    \E i \in 1..Len(AuthParams) :
        /\ AuthParams[i] \notin step.argv.flags
        /\ AuthParams[i] \notin step.environ

ShellFailure ==
    \/ ShellUnknownCommand
    \/ ShellBadOptions
    \/ ShellAuthMissing
    \/ step.behaviour = "raises"

ShellInterrupted ==
    /\ ~ShellUnknownCommand
    /\ ~ShellBadOptions
    /\ ~ShellAuthMissing
    /\ step.behaviour = "interrupted"

\* C20: process_main ends with a non-zero exit status on every failure (the
\* strategy command raises, the command is unknown, or an authentication
\* parameter is given neither as flag nor in the environment) and with exit
\* status 0 after printing a notice on a keyboard interrupt.
C20_NonZeroExitOnFailure ==
    ~step.running
        => /\ ShellFailure => step.exit_status # 0
           /\ ShellInterrupted
                  => /\ step.exit_status = 0
                     /\ step.output = "Keyboard Interrupt received."

(***************************************************************************)
(* Properties of the unlock retry scenario.                                *)
(***************************************************************************)
ScenarioTargetUnlockedEnabled ==
    /\ ~host_is_locked(host_table["w-0"])
    /\ host_is_enabled(host_table["w-0"])

\* The step is waiting and this step of the behaviour handles `event`.
ScenarioHandles(event) ==
    /\ stage.result = WAIT
    /\ ghost'.event = event
    /\ now' = now
    /\ host_table' = host_table

\* C21: in unlock-hosts([w-0], retry_count=2, retry_delay=120), after a
\* HOST_UNLOCK_FAILED(w-0) with w-0 locked, a HOST_AUDIT earlier than 120 s
\* after the failure issues no unlock; a HOST_AUDIT at or after 120 s issues
\* exactly one unlock and clears the pending retry; an audit without a
\* pending retry issues none; HOST_STATE_CHANGED with w-0 unlocked and
\* enabled completes the step SUCCESS, with 2 unlock invocations in total
\* after one failure and its re-issue.
C21_UnlockRetryScenario ==
    [][/\ (/\ ScenarioHandles(HOST_AUDIT)
           /\ ~ScenarioTargetUnlockedEnabled
           /\ step.retry_requested
           /\ now - ghost.retry_at < RETRY_DELAY * 1000)
          => (calls' = calls /\ step'.retry_requested /\ stage'.result = WAIT)
       /\ (/\ ScenarioHandles(HOST_AUDIT)
           /\ ~ScenarioTargetUnlockedEnabled
           /\ step.retry_requested
           /\ now - ghost.retry_at >= RETRY_DELAY * 1000)
          => (calls' = calls + 1 /\ ~step'.retry_requested)
       /\ (/\ ScenarioHandles(HOST_AUDIT)
           /\ ~step.retry_requested)
          => calls' = calls
       /\ (/\ ScenarioHandles(HOST_STATE_CHANGED)
           /\ ScenarioTargetUnlockedEnabled)
          => /\ stage'.result = SUCCESS
             /\ calls' = calls
             /\ (/\ step.retries["w-0"] = step.retry_count - 1
                 /\ ~step.retry_requested) => calls' = 2]_vars

C21_Witness ==
    /\ step.retry_delay = RETRY_DELAY
    /\ ghost.event = HOST_STATE_CHANGED
    /\ stage.result = SUCCESS
    /\ step.retries["w-0"] = step.retry_count - 1
    /\ ~step.retry_requested
    /\ ghost.retry_at >= 0
    /\ now - ghost.retry_at >= RETRY_DELAY * 1000
    /\ calls = 2

\* What handling HOST_UNLOCK_FAILED for host h makes of the current step.
UnlockFailedOutcome(h) ==
    UnlockHostsStep_handle_event(step, host_table, now, HOST_UNLOCK_FAILED, h,
                                 "inprogress")

\* C22: HOST_UNLOCK_FAILED for a target host of a waiting unlock-hosts step:
\* with the host locked and its retry counter above 0, the counter drops by
\* one, a retry is scheduled at the current time and the step stays in
\* progress; otherwise the step completes FAILED with "host unlock failed";
\* in both cases the handler issues no unlock.
C22_UnlockFailedRetriesOrFails ==
    (step.name = "unlock-hosts" /\ stage.result = WAIT) =>
        \A h \in SeqToSet(step.host_names) :
            host_table[h].present =>
                LET out == UnlockFailedOutcome(h)
                    after == RunEvent(Cur, out)
                IN  /\ out.ret = TRUE
                    /\ after.calls = calls
                    /\ IF host_is_locked(host_table[h]) /\ step.retries[h] > 0
                       THEN /\ out.step.retries =
                                   [step.retries EXCEPT ![h] = @ - 1]
                            /\ out.step.retry_requested
                            /\ out.step.wait_time = now
                            /\ after.stage.result = WAIT
                       ELSE /\ out.step = step
                            /\ after.stage.result = FAILED
                            /\ after.stage.reason = <<"host unlock failed">>

C22_Witness ==
    /\ step.name = "unlock-hosts"
    /\ ghost.event = HOST_UNLOCK_FAILED
    /\ step.retry_count >= 1
    /\ \E h \in SeqToSet(step.host_names) :
           /\ step.retries[h] = 0
           /\ ~host_is_locked(host_table[h])
    /\ stage.result = FAILED
    /\ stage.reason = <<"host unlock failed">>
    /\ calls = 1

(***************************************************************************)
(* Further properties of lock-hosts.                                       *)
(***************************************************************************)
\* The instances located on a target host that are not locked and disabled.
LockOffendingInstances ==
    {u \in InstanceUuids :
        /\ instance_table[u].present
        /\ instance_table[u].host_name \in SeqToSet(step.host_names)
        /\ ~(instance_table[u].admin = "locked"
                /\ instance_table[u].oper = "disabled")}

\* Every target host is in the table, locked and, when the step waits for
\* it, disabled.
LockTargetsSatisfied ==
    \A h \in SeqToSet(step.host_names) :
        /\ host_table[h].present
        /\ host_table[h].admin = "locked"
        /\ step.wait_until_disabled => host_table[h].oper = "disabled"

\* C23: lock-hosts.apply on targets that are not all locked (and disabled
\* when required) returns FAILED, with a reason naming the hosts and the
\* offending instances, and makes no lock call when an instance on a target
\* host is not locked and disabled; it makes the lock call only when there
\* is no such instance.
C23_LockRefusedWhileInstancesRun ==
    [][(stage.result = INITIAL /\ ghost'.event = "apply") =>
          /\ (/\ ~LockTargetsSatisfied
              /\ LockOffendingInstances # {})
             => /\ stage'.result = FAILED
                /\ Len(stage'.reason) = 3
                /\ stage'.reason[2] = step.host_names
                /\ stage'.reason[3] = LockOffendingInstances
                /\ calls' = calls
          /\ calls' > calls
             => /\ ~LockTargetsSatisfied
                /\ LockOffendingInstances = {}]_vars

C23_Witness ==
    /\ step.name = "lock-hosts"
    /\ ghost.event = "apply"
    /\ stage.result = FAILED
    /\ Len(stage.reason) = 3
    /\ stage.reason[3] = LockOffendingInstances
    /\ LockOffendingInstances # {}
    /\ calls = 0

(***************************************************************************)
(* Properties of a saved and loaded sw-patch-hosts step.                   *)
(***************************************************************************)

\* C24: when sw-patch-hosts completes SUCCESS every target host has been
\* reported by a query response as patch_current and not patch_failed, and
\* a query response after which some target has been reported neither
\* patch_current nor patch_failed so far does not complete the step.
C24_SuccessOnlyWhenAllTargetsPatched ==
    [][/\ (stage.result # SUCCESS /\ stage'.result = SUCCESS)
          => SeqToSet(step.host_names) \subseteq ghost'.patched
       /\ (/\ ghost'.event = "query-callback"
           /\ ~(SeqToSet(step.host_names) \subseteq ghost'.decided))
          => stage'.result = stage.result]_vars

(***************************************************************************)
(* Properties of the abort steps.                                          *)
(***************************************************************************)
\* The abort chain is one step of kind `name` whose targets are `targets`.
AbortChainIs(name, field, targets) ==
    /\ Len(pending) = 1
    /\ pending[1].name = name
    /\ pending[1][field] = targets

\* The targets of the step that were in the tables when the step was built
\* or last loaded.
AbortLiveTargets(targets) == SelectSeq(targets, LAMBDA e : e \in ghost.live)

\* C25 (as stated): the abort chain of lock-hosts is [unlock-hosts] over the
\* same hosts, of stop-instances [start-instances] over the same instances,
\* of disable-host-services [enable-host-services] over the same hosts and
\* service; every other kind except fw-update-hosts has no abort steps.
C25_AbortChainOverSameTargets ==
    ghost.event = "abort" =>
        CASE step.name = "lock-hosts" ->
                 AbortChainIs("unlock-hosts", "host_names", step.host_names)
          [] step.name = "stop-instances" ->
                 AbortChainIs("start-instances", "instance_uuids",
                              step.instance_uuids)
          [] step.name = "disable-host-services" ->
                 /\ AbortChainIs("enable-host-services", "host_names",
                                 step.host_names)
                 /\ pending[1].service = step.service
          [] step.name = "fw-update-hosts" -> TRUE
          [] OTHER -> pending = <<>>

\* C25 (amended): the same chains, over those targets of the step that were
\* in the host or instance table when the step was built or last loaded.
C25_AbortChainOverLiveTargets ==
    ghost.event = "abort" =>
        CASE step.name = "lock-hosts" ->
                 AbortChainIs("unlock-hosts", "host_names",
                              AbortLiveTargets(step.host_names))
          [] step.name = "stop-instances" ->
                 AbortChainIs("start-instances", "instance_uuids",
                              AbortLiveTargets(step.instance_uuids))
          [] step.name = "disable-host-services" ->
                 /\ AbortChainIs("enable-host-services", "host_names",
                                 AbortLiveTargets(step.host_names))
                 /\ pending[1].service = step.service
          [] step.name = "fw-update-hosts" -> TRUE
          [] OTHER -> pending = <<>>

C25_Witness ==
    /\ ghost.event = "abort"
    /\ ghost.loads = 1
    /\ step.name = "lock-hosts"
    /\ step.host_names = <<"w-0", "w-1">>
    /\ AbortChainIs("unlock-hosts", "host_names", <<"w-1">>)

(***************************************************************************)
(* Properties of the steps under inventory drift.                          *)
(***************************************************************************)
DriftHostAbsent ==
    \E h \in SeqToSet(step.host_names) : ~host_table[h].present

DriftInstanceAbsent ==
    \E u \in SeqToSet(step.instance_uuids) : ~instance_table[u].present

\* The step is waiting and this step of the behaviour handles `event`.
DriftHandles(event) ==
    /\ stage.result = WAIT
    /\ ghost'.event = event
    /\ now' = now
    /\ host_table' = host_table
    /\ instance_table' = instance_table

DriftFails(reason) ==
    /\ stage'.result = FAILED
    /\ stage'.reason = <<reason>>

\* At least 120 s have passed since the first audit the step handled.
DriftUpgradeWaited ==
    /\ step.wait_time # 0
    /\ now - step.wait_time >= 120 * 1000

\* The part of the claim that holds as stated.
DriftFailsWaitingSteps ==
    /\ (/\ step.name \in {"unlock-hosts", "lock-hosts",
                          "disable-host-services", "enable-host-services"}
        /\ DriftHandles(HOST_STATE_CHANGED) \/ DriftHandles(HOST_AUDIT)
        /\ DriftHostAbsent)
       => DriftFails("host no longer exists")
    /\ (/\ step.name \in {"start-instances", "stop-instances"}
        /\ DriftHandles(INSTANCE_STATE_CHANGED) \/ DriftHandles(INSTANCE_AUDIT)
        /\ DriftInstanceAbsent)
       => DriftFails("instance no longer exists")

\* C26 (as stated): unlock-hosts, lock-hosts, disable-host-services and
\* enable-host-services fail with "host no longer exists" when a target host
\* is absent while HOST_STATE_CHANGED or HOST_AUDIT is handled, upgrade-hosts
\* likewise once 120 s have passed; start-instances and stop-instances fail
\* with "instance no longer exists" when a target instance is absent while
\* INSTANCE_STATE_CHANGED or INSTANCE_AUDIT is handled.
C26_DriftFailsStep ==
    [][/\ DriftFailsWaitingSteps
       /\ (/\ step.name = "upgrade-hosts"
           /\ DriftHandles(HOST_STATE_CHANGED) \/ DriftHandles(HOST_AUDIT)
           /\ DriftUpgradeWaited
           /\ DriftHostAbsent)
          => DriftFails("host no longer exists")]_vars

\* C26 (amended): as above, but upgrade-hosts looks at the host table only
\* while handling HOST_AUDIT: it fails with "host no longer exists" on a
\* HOST_AUDIT once 120 s have passed, and HOST_STATE_CHANGED leaves it
\* waiting.
C26_DriftFailsStepOnHandledEvent ==
    [][/\ DriftFailsWaitingSteps
       /\ (/\ step.name = "upgrade-hosts"
           /\ DriftHandles(HOST_AUDIT)
           /\ DriftUpgradeWaited
           /\ DriftHostAbsent)
          => DriftFails("host no longer exists")
       /\ (/\ step.name = "upgrade-hosts"
           /\ DriftHandles(HOST_STATE_CHANGED))
          => (stage' = stage /\ step' = step)]_vars

C26_Witness ==
    /\ step.name = "upgrade-hosts"
    /\ ghost.event = HOST_AUDIT
    /\ DriftHostAbsent
    /\ stage.result = FAILED
    /\ stage.reason = <<"host no longer exists">>
    /\ now - step.wait_time >= 120 * 1000

(***************************************************************************)
(* C27: a polling step issues its poll query only while it handles a       *)
(* HOST_AUDIT at which its first-poll delay has elapsed since the first    *)
(* HOST_AUDIT it handled after it was built or loaded, and loading it      *)
(* leaves wait_time = 0 and query_inprogress = FALSE.                      *)
(***************************************************************************)
\* The documented first-poll delay of each polling step, in seconds.
FirstPollDelay(stp) ==
    IF stp.name = "wait-data-sync" THEN 120
    ELSE IF stp.name = "wait-alarms-clear" THEN stp.first_query_delay_in_secs
    ELSE 60

PollIssued == \E r \in PollRequests : pending'[r] > pending[r]

C27_NoPollBeforeFirstPollDelay ==
    [][/\ PollIssued =>
              /\ ghost'.event = HOST_AUDIT
              /\ ghost'.audited
              /\ now - ghost'.first_audit >= FirstPollDelay(step) * 1000
       /\ ghost'.event = "load" /\ ghost'.loads > ghost.loads =>
              /\ step'.wait_time = 0
              /\ ~step'.query_inprogress]_vars

\* A loaded step polls on an audit a full delay after its first audit since
\* the load, having handled audits before the load as well.
C27_Witness ==
    /\ ghost.loads = 1
    /\ ghost.event = HOST_AUDIT
    /\ ghost.issued # {}
    /\ FirstPollDelay(step) > 0
    /\ ghost.first_audit > StartMs
    /\ now - ghost.first_audit >= FirstPollDelay(step) * 1000

(***************************************************************************)
(* C28: wait-data-sync and wait-alarms-clear return WAIT from apply; they  *)
(* poll the alarms exactly when they handle a HOST_AUDIT at which the      *)
(* first-query delay has elapsed since the first audit and no poll is      *)
(* outstanding; a poll answer with an empty residual alarm list, and only  *)
(* that, completes the step SUCCESS, an answer with completed = false      *)
(* completes it FAILED, any other answer leaves it waiting for the next    *)
(* audit, and otherwise only the step timeout fails it.                    *)
(***************************************************************************)
\* The alarms of a poll answer that neither the restriction nor the
\* ignore list removes.
PollResidualAlarms(strat, stp, response) ==
    {i \in 1..Len(response.result_data) :
        /\ ~(strat.alarm_restrictions = "relaxed"
             /\ response.result_data[i].mgmt_affecting = "False")
        /\ response.result_data[i].alarm_id \notin SeqToSet(stp.ignore_alarms)}

\* This step of a waiting step issues an alarm query.
AlarmWaitPolls ==
    /\ stage.result = WAIT
    /\ ghost'.event # "callback"
    /\ pending' # pending

\* What the statement says of apply, of the poll answers and of the
\* deadline.
AlarmWaitOutcomes ==
    /\ ghost'.event = "apply" /\ stage.result = INITIAL =>
           /\ stage'.result = WAIT
           /\ pending' = {}
    /\ stage.result = WAIT /\ ghost'.event = "callback" =>
           /\ ghost'.response.completed
                  /\ PollResidualAlarms(strategy, step, ghost'.response) = {}
                  => stage'.result = SUCCESS
           /\ ~ghost'.response.completed =>
                  stage'.result = FAILED
           /\ ghost'.response.completed
                  /\ PollResidualAlarms(strategy, step, ghost'.response) # {}
                  => /\ stage'.result = WAIT
                     /\ ~step'.query_inprogress
    /\ stage.result = WAIT /\ stage'.result = SUCCESS =>
           /\ ghost'.event = "callback"
           /\ ghost'.response.completed
           /\ PollResidualAlarms(strategy, step, ghost'.response) = {}
    /\ stage.result = WAIT /\ stage'.result = FAILED =>
           \/ ghost'.event = "callback" /\ ~ghost'.response.completed
           \/ /\ ghost'.event = "timeout"
              /\ now - ghost.applied_at >= StepTimeoutInSecs[step.name] * 1000

\* The statement for a first-query delay given per step, in seconds: the
\* step polls on exactly the audits that find the delay elapsed and no poll
\* outstanding.
AlarmWaitBehaviour(Delay(_)) ==
    /\ stage.result = WAIT /\ ghost'.event # "callback" =>
           (pending' # pending <=>
               /\ now' = now
               /\ ghost'.event = HOST_AUDIT
               /\ ~step.query_inprogress
               /\ now - ghost'.first_audit >= Delay(step) * 1000)
    /\ AlarmWaitOutcomes

\* C28 as stated: a step of either kind polls only on a HOST_AUDIT, and
\* only once the first_query_delay_in_secs it carries have elapsed.
C28_AlarmWaitPollsAfterFirstQueryDelay ==
    [][/\ AlarmWaitPolls =>
              /\ ghost'.event = HOST_AUDIT
              /\ "first_query_delay_in_secs" \in DOMAIN step
              /\ now - ghost'.first_audit
                     >= step.first_query_delay_in_secs * 1000
       /\ AlarmWaitOutcomes]_vars

\* C28 as amended: wait-data-sync has no first_query_delay_in_secs and
\* waits a fixed 120 s; wait-alarms-clear waits first_query_delay_in_secs.
C28_AlarmWaitPollsAfterStepDelay ==
    [][AlarmWaitBehaviour(FirstPollDelay)]_vars

\* A wait-data-sync step that polled after 120 s, was answered with
\* alarms left, polled again on a later audit and was then answered with
\* none.
C28_Witness ==
    /\ step.name = "wait-data-sync"
    /\ stage.result = SUCCESS
    /\ ghost.event = "callback"
    /\ ghost.polls >= 2
    /\ now >= ghost.first_audit + 180000

(***************************************************************************)
(* C29: an upgrade-hosts step comes to SUCCESS only while it handles a     *)
(* HOST_AUDIT at least 120 s after the first audit it handled, with every  *)
(* target host online and its target_load and software_load equal to the   *)
(* upgrade's to_release; HOST_UPGRADE_FAILED about a target host completes *)
(* the waiting step FAILED with "host upgrade failed".                     *)
(***************************************************************************)
UpgradeTargetsUpgraded(tbl) ==
    \A i \in 1..Len(step.host_names) :
        LET host == host_table_get(tbl, step.host_names[i])
        IN  /\ host # NoHost
            /\ host.online
            /\ host.target_load = strategy.nfvi_upgrade.to_release
            /\ host.software_load = strategy.nfvi_upgrade.to_release

UpgradeSuccessOnAudit ==
    /\ ghost'.event = HOST_AUDIT
    /\ ghost'.audited
    /\ now - ghost'.first_audit >= 120 * 1000
    /\ UpgradeTargetsUpgraded(host_table)

UpgradeFailedEventFails ==
    /\ stage.result = WAIT
    /\ now' = now /\ host_table' = host_table
    /\ ghost'.event = HOST_UPGRADE_FAILED
    /\ ghost'.event_data \in SeqToSet(step.host_names)
    => /\ stage'.result = FAILED
       /\ stage'.reason = <<"host upgrade failed">>

C29_UpgradeSuccessOnlyOnAudit ==
    [][step.name = "upgrade-hosts" =>
           /\ stage.result # SUCCESS /\ stage'.result = SUCCESS
                  => UpgradeSuccessOnAudit
           /\ UpgradeFailedEventFails]_vars

\* The same restricted to the steps of a waiting step: what
\* stage.step_complete is called with.
UpgradeWaitSuccessOnlyOnAudit ==
    [][step.name = "upgrade-hosts" =>
           /\ stage.result = WAIT /\ stage'.result = SUCCESS
                  => UpgradeSuccessOnAudit
           /\ UpgradeFailedEventFails]_vars

(***************************************************************************)
(* C30: kube-upgrade-start, -download-images, -networking, -complete and   *)
(* kube-host-upgrade-control-plane come to SUCCESS only by a poll answer   *)
(* whose kube-upgrade state is the step's success state; a poll answer in  *)
(* the step's failure state, when it has one, completes the step FAILED,   *)
(* as does KUBE_HOST_UPGRADE_CONTROL_PLANE_FAILED about the target of a    *)
(* control-plane step; any other state leaves the step waiting, and so     *)
(* does the completed answer to the request that apply issued.             *)
(***************************************************************************)
KubeUpgradePollingStepNames ==
    {"kube-upgrade-start", "kube-upgrade-download-images",
     "kube-upgrade-networking", "kube-upgrade-complete",
     "kube-host-upgrade-control-plane"}

\* This step delivers the driver's answer to the given request.
PollingDelivers(request) ==
    /\ ghost'.event = "callback"
    /\ ghost'.request = request
    /\ pending'[request] = pending[request] - 1

KubePollAnswers(state) ==
    /\ PollingDelivers("get-kube-upgrade")
    /\ ghost'.response.completed
    /\ ghost'.response.result_data.state = state

KubeUpgradeSuccessByPoll == KubePollAnswers(step.success_state)

KubeUpgradeWaitingBehaviour ==
    /\ (stage.result = WAIT /\ step.fail_state # NoName
            /\ KubePollAnswers(step.fail_state))
           => stage'.result = FAILED
    /\ (stage.result = WAIT
            /\ step.name = "kube-host-upgrade-control-plane"
            /\ now' = now /\ pending' = pending
            /\ ghost'.event = KUBE_HOST_UPGRADE_CONTROL_PLANE_FAILED
            /\ ghost'.event_data \in SeqToSet(step.host_names))
           => (stage'.result = FAILED
                  /\ stage'.reason = <<"kube host upgrade control plane",
                                       ghost'.event_data, "failed">>)
    /\ (stage.result = WAIT
            /\ \E state \in KubeUpgradeStates \ {step.success_state,
                                                  step.fail_state} :
                   KubePollAnswers(state))
           => stage'.result = WAIT
    /\ (stage.result = WAIT /\ PollingDelivers(step.name)
            /\ ghost'.response.completed)
           => stage'.result = WAIT

C30_KubeUpgradeSuccessOnlyByPoll ==
    [][step.name \in KubeUpgradePollingStepNames =>
           /\ (stage.result # SUCCESS /\ stage'.result = SUCCESS)
                  => KubeUpgradeSuccessByPoll
           /\ KubeUpgradeWaitingBehaviour]_vars

\* The same restricted to the steps of a waiting step: what
\* stage.step_complete is called with.
KubeUpgradeWaitSuccessOnlyByPoll ==
    [][step.name \in KubeUpgradePollingStepNames =>
           /\ (stage.result = WAIT /\ stage'.result = SUCCESS)
                  => KubeUpgradeSuccessByPoll
           /\ KubeUpgradeWaitingBehaviour]_vars

\* A waiting step that a poll answer in its success state completed.
KubeUpgradeSucceededByPoll ==
    /\ step.name \in KubeUpgradePollingStepNames
    /\ stage.result = SUCCESS
    /\ ghost.event = "callback"
    /\ ghost.request = "get-kube-upgrade"
    /\ ghost.loads = 1

(***************************************************************************)
(* C31: start-upgrade, activate-upgrade and complete-upgrade ask for the   *)
(* upgrade record only when handling a HOST_AUDIT at least 60 s after the  *)
(* first audit; they come to SUCCESS only by a poll answer in which the    *)
(* upgrade is STARTED, ACTIVATION_COMPLETE, or absent, respectively; and   *)
(* an answer with completed = false, to the request apply issued or to a   *)
(* poll, completes the waiting step FAILED.                                *)
(***************************************************************************)
UpgradeStepNames == {"start-upgrade", "activate-upgrade", "complete-upgrade"}

\* The request the step's apply issues.
UpgradeInitiatingRequest(name) ==
    CASE name = "start-upgrade" -> "upgrade-start"
      [] name = "activate-upgrade" -> "upgrade-activate"
      [] name = "complete-upgrade" -> "upgrade-complete"

\* The upgrade record with which the step is done.
UpgradeDone(name, obj) ==
    CASE name = "start-upgrade" -> obj = [state |-> UPGRADE_STATE_STARTED]
      [] name = "activate-upgrade" ->
             obj = [state |-> UPGRADE_STATE_ACTIVATION_COMPLETE]
      [] name = "complete-upgrade" -> obj = NoUpgrade

C31_UpgradeStepsPollAndComplete ==
    [][step.name \in UpgradeStepNames =>
           /\ (pending'["get-upgrade"] > pending["get-upgrade"])
                  => (/\ ghost'.event = HOST_AUDIT
                      /\ now' = now
                      /\ now - ghost'.first_audit >= 60 * 1000)
           /\ (stage.result # SUCCESS /\ stage'.result = SUCCESS)
                  => (/\ PollingDelivers("get-upgrade")
                      /\ ghost'.response.completed
                      /\ UpgradeDone(step.name, ghost'.response.result_data))
           /\ (/\ stage.result = WAIT
               /\ \/ PollingDelivers(UpgradeInitiatingRequest(step.name))
                  \/ PollingDelivers("get-upgrade")
               /\ ~ghost'.response.completed)
                  => stage'.result = FAILED]_vars

\* complete-upgrade ended with SUCCESS on a poll that found no upgrade
\* record, asked for 60 s or more after the first audit.
C31_Witness ==
    /\ step.name = "complete-upgrade"
    /\ stage.result = SUCCESS
    /\ ghost.event = "callback"
    /\ ghost.request = "get-upgrade"
    /\ ghost.response.completed
    /\ ghost.response.result_data = NoUpgrade
    /\ now >= ghost.first_audit + 60 * 1000

(***************************************************************************)
(* C32: a step whose apply returned WAIT eventually has a terminal result: *)
(* an event or callback completes it, or the controller's tick resolves it *)
(* through its timeout() policy once its deadline has expired.  No step    *)
(* waits forever.                                                          *)
(***************************************************************************)
C32_WaitingStepTerminates ==
    (stage.result = WAIT) ~> (stage.result \in {SUCCESS, FAILED})

\* A step of the kinds with the longest deadline that no event completed
\* and the timeout resolved.
C32_Witness ==
    /\ step.name # "system-stabilize"
    /\ step.timeout_in_secs = 3600
    /\ stage.result = FAILED
    /\ ghost.event = "timeout"
    /\ now - ghost.applied_at >= 3600 * 1000

(***************************************************************************)
(* C33: the step names are a closed set.  Rebuilding the dictionary a step *)
(* of the library wrote yields a step of the same class and name, for      *)
(* every class; rebuilding a dictionary whose name is not that of an       *)
(* implemented step, 'query-hosts' included, yields a plain base step.     *)
(***************************************************************************)
C33_RebuildKeepsKindAndNamesAreClosed ==
    /\ ghost.event = "rebuild" /\ ~ghost.foreign
           => (step.class = ghost.class /\ step.name = ghost.name)
    /\ ghost.event = "rebuild" /\ ghost.foreign
           => (step.class = "StrategyStep" /\ step.class \notin StepClasses)
    /\ \A class \in StepClasses :
           /\ StepClassName[class] \in StrategyStepNames \ {"query-hosts"}
           /\ rebuild_class(StepClassName[class]) = class
    /\ \A name \in StrategyStepNames \ {"query-hosts"} :
           \E class \in StepClasses : StepClassName[class] = name
    /\ \A name \in ForeignNames : rebuild_class(name) = "StrategyStep"

\* A fw-update-hosts step, one of the kinds recognised by the chain of
\* comparisons rather than by the rebuild_map, came back from its dictionary.
C33_Witness ==
    /\ ghost.event = "rebuild"
    /\ ~ghost.foreign
    /\ ghost.class = "FwUpdateHostsStep"
    /\ step.name = "fw-update-hosts"

(***************************************************************************)
(* C34: in an unlock-hosts step with retry_count = R every host's retry    *)
(* counter stays within 0..R.  It starts at R, and a handler lowers it, by *)
(* one, only when it handles HOST_UNLOCK_FAILED about that host while the  *)
(* host is locked and the counter is above 0.                              *)
(***************************************************************************)
UnlockEvents ==
    {HOST_STATE_CHANGED, HOST_AUDIT, HOST_UNLOCK_FAILED, HOST_LOCK_FAILED}

\* The handlers' effect on the counters, for every input they can be given
\* in this state.
UnlockRetryCountersChangeOnlyByFailedUnlock ==
    /\ \A op \in OperationStates :
           UnlockHostsStep_apply(step, host_table, op).step.retries
               = step.retries
    /\ \A event \in UnlockEvents, op \in OperationStates,
          event_data \in {n \in HostNames : host_table[n].present}
                             \cup {NoName} :
           LET out == UnlockHostsStep_handle_event(step, host_table, now,
                                                   event, event_data, op)
           IN  out.step.retries # step.retries
                   => /\ event = HOST_UNLOCK_FAILED
                      /\ event_data \in DOMAIN step.retries
                      /\ host_is_locked(host_table_get(host_table, event_data))
                      /\ step.retries[event_data] > 0
                      /\ out.step.retries =
                             [step.retries EXCEPT ![event_data] = @ - 1]

C34_RetryCounterWithinBounds ==
    /\ DOMAIN step.retries = SeqToSet(step.host_names)
    /\ \A h \in DOMAIN step.retries :
           /\ step.retries[h] \in 0..step.retry_count
           /\ stage.result = INITIAL => step.retries[h] = step.retry_count
    /\ UnlockRetryCountersChangeOnlyByFailedUnlock

\* A host had a retry, used it, and the next failed unlock found the
\* counter at 0: the step failed and the counter stayed at 0.
C34_Witness ==
    /\ step.retry_count >= 1
    /\ \E h \in DOMAIN step.retries : step.retries[h] = 0
    /\ ghost.event = HOST_UNLOCK_FAILED
    /\ stage.result = FAILED
    /\ stage.reason = <<"host unlock failed">>

(***************************************************************************)
(* C35: a step that polls under query_inprogress has at most one poll      *)
(* outstanding.  A HOST_AUDIT handled while a poll is outstanding issues   *)
(* no request, and a poll is issued only when the answer to the previous   *)
(* one has been delivered.                                                 *)
(***************************************************************************)
\* The requests that are polls, among those the step can have in flight.
StepPollRequests == (PollRequests \cup {"query-hosts"}) \cap DOMAIN pending

PollsOutstanding == {r \in StepPollRequests : pending[r] > 0}

C35_AtMostOnePollOutstanding ==
    [][/\ \A r \in StepPollRequests : pending[r] <= 1 /\ pending'[r] <= 1
       /\ Cardinality(PollsOutstanding) <= 1
       /\ (PollsOutstanding # {}) = step.query_inprogress
       /\ (PollsOutstanding # {} /\ ghost'.event = HOST_AUDIT /\ now' = now)
              => pending' = pending
       /\ \A r \in StepPollRequests :
              pending'[r] > pending[r]
                  => (PollsOutstanding = {} /\ ghost'.event = HOST_AUDIT)]_vars

\* A second poll went out after the first one was answered, and an audit
\* handled since has left it the only one outstanding.
C35_Witness ==
    /\ ghost.event = HOST_AUDIT
    /\ ghost.issued = {}
    /\ ghost.request \in PollRequests \cup {"query-hosts"}
    /\ ghost.request \in DOMAIN pending
    /\ pending[ghost.request] = 1
    /\ step.query_inprogress
    /\ stage.result = WAIT

(***************************************************************************)
(* C36: in fw-update-hosts the completion entry of a target is sticky.     *)
(* Once a host is marked done no poll answer changes its entry, no later   *)
(* audit polls it, and the audits that poll the hosts still pending are at *)
(* least 60 s of monotonic time apart.                                     *)
(***************************************************************************)
FwDone(stp) == {h \in DOMAIN stp.host_completed : stp.host_completed[h][1]}

C36_FwCompletionIsSticky ==
    [][/\ \A h \in FwDone(step) :
              step'.host_completed[h] = step.host_completed[h]
       /\ (now' = now /\ ghost'.event = HOST_AUDIT)
              => /\ ghost'.polled \cap FwDone(step) = {}
                 /\ ghost'.polled \subseteq SeqToSet(step.host_names)
                 /\ ghost'.polled # {}
                        => (ghost'.polled =
                                SeqToSet(step.host_names) \ FwDone(step))
       /\ ghost'.prev_poll >= 0
              => ghost'.last_poll - ghost'.prev_poll >= 60 * 1000]_vars

\* Of two targets one is done and the other is not; the second polling
\* audit, 60 s after the first, polled only the one still pending.
C36_Witness ==
    /\ step.host_names = <<"w-0", "w-1">>
    /\ FwDone(step) = {"w-0"}
    /\ ghost.event = HOST_AUDIT
    /\ ghost.polled = {"w-1"}
    /\ ghost.prev_poll >= 0
    /\ ghost.last_poll = now
    /\ stage.result = WAIT

(***************************************************************************)
(* Properties of the unlock-hosts dictionary round trip.                   *)
(***************************************************************************)
UnlockLoads(event) ==
    /\ ghost'.event = event
    /\ ghost'.rehydrations = ghost.rehydrations + 1

\* The retry progress after from_dict: a counter for exactly the target
\* hosts in the host table, each at retry_count, and no retry pending.
UnlockRetryProgressReset(stp, tbl) ==
    /\ DOMAIN stp.retries = {h \in SeqToSet(stp.host_names) :
                                host_table_get(tbl, h) # NoHost}
    /\ \A h \in DOMAIN stp.retries : stp.retries[h] = stp.retry_count
    /\ ~stp.retry_requested
    /\ stp.wait_time = 0

\* C37: as_dict followed by from_dict keeps retry_count and retry_delay (0
\* and 120 when the dictionary lacks the keys) and the target hosts, and
\* resets the retry progress whatever had been consumed or requested: every
\* target host in the host table has its counter at retry_count, no retry is
\* pending.
C37_RehydrateKeepsSettingsResetsProgress ==
    [][/\ (UnlockLoads("rehydrate") =>
              /\ step'.retry_count = step.retry_count
              /\ step'.retry_delay = step.retry_delay)
       /\ (UnlockLoads("rehydrate-old") =>
              /\ step'.retry_count = 0
              /\ step'.retry_delay = RETRY_DELAY)
       /\ ((UnlockLoads("rehydrate") \/ UnlockLoads("rehydrate-old")) =>
              /\ step'.name = step.name
              /\ step'.host_names = step.host_names
              /\ UnlockRetryProgressReset(step', host_table'))]_vars

\* A step with retries consumed or requested before serialization is
\* rehydrated while one of its targets is missing from the host table.
C37_Witness ==
    /\ ghost.event = "rehydrate"
    /\ ghost.dirty
    /\ step.retry_count >= 1
    /\ \E h \in SeqToSet(step.host_names) : h \notin DOMAIN step.retries
    /\ \E h \in DOMAIN step.retries : step.retries[h] = step.retry_count
    /\ ~step.retry_requested

(***************************************************************************)
(* Properties of the Kubernetes taint calls.                               *)
(***************************************************************************)
TaintMatches(taint, key, effect) == taint.key = key /\ taint.effect = effect

MatchingTaints(node, key, effect) ==
    {i \in 1..Len(node.taints) : TaintMatches(node.taints[i], key, effect)}

OtherNodesUnchanged(node_name) ==
    \A n \in NodeNames \ {node_name} : host_table'[n] = host_table[n]

\* In this step thread t ends its call `op`, and no request of the call
\* was refused by the API server.
KubeCallEnds(t, op) ==
    /\ pending[t].op = op
    /\ pending'[t].op = NoName
    /\ ghost'.raised # "ApiException"

\* The node is, when the call of t ends, as the call read it.
KubeCallUndisturbed(t) ==
    pending[t].response.node = host_table[pending[t].node_name]

\* The cases of taint_node, decided on the node as the call read it
\* (`read`, the answer of read_node): `before` and `after` are the node
\* when the call ends and after it.
TaintNodeCases(c, call, read, before, after) ==
    LET matching == MatchingTaints(read.node, c.key, c.effect)
        new_taint == [key |-> c.key, value |-> c.value, effect |-> c.effect]
    IN  /\ TaintsUnique(read.node.taints) => TaintsUnique(after.taints)
        /\ (\E i \in matching : read.node.taints[i].value = c.value) =>
              /\ call.patches = 0
              /\ call.raised = NoName
              /\ after = before
        /\ (\E i \in matching : read.node.taints[i].value # c.value) =>
              /\ call.patches = 0
              /\ call.raised = "Exception"
              /\ after = before
        /\ (read.status = 200 /\ matching = {}) =>
              /\ call.patches = 1
              /\ call.raised = NoName
              /\ after.present
              /\ after.taints = Append(read.node.taints, new_taint)
        /\ read.status = NOT_FOUND =>
              /\ call.patches = 0
              /\ call.raised = NoName
              /\ ~call.result
              /\ after = before

TaintNodeBehaves(t) ==
    /\ TaintNodeCases(pending[t], ghost', pending[t].response,
                      host_table[pending[t].node_name],
                      host_table'[pending[t].node_name])
    /\ OtherNodesUnchanged(pending[t].node_name)

\* C38: taint_node keeps the taints of a node unique by (key, effect): a
\* taint with that key and effect and the same value means no patch and
\* unchanged taints, one with a different value means an error and
\* unchanged taints, otherwise exactly one taint is appended after the
\* existing ones; a node the cluster does not have is ignored without
\* error.  The existing taints are those of the node as the call read it.
C38_TaintNodeIdempotentAndUnique ==
    [][\A t \in KubeThreads :
          KubeCallEnds(t, "taint_node") => TaintNodeBehaves(t)]_vars

\* A taint is appended to a node that carries the same key with the other
\* effect.
C38_Witness ==
    /\ ghost.op = "taint_node"
    /\ ghost.patches = 1
    /\ ghost.result
    /\ ghost.undisturbed
    /\ \E i \in 1..Len(ghost.before.taints) :
          /\ ghost.before.taints[i].key = ghost.key
          /\ ghost.before.taints[i].effect # ghost.effect
    /\ Len(host_table[ghost.node_name].taints)
          = Len(ghost.before.taints) + 1

\* The taints of a node stay unique by (key, effect) whatever the calls
\* and their interleaving.
NodeTaintsUnique ==
    \A n \in NodeNames : TaintsUnique(host_table[n].taints)

\* The cases of untaint_node, decided on the node as the call read it.
UntaintNodeCases(c, call, read, before, after) ==
    LET matching == MatchingTaints(read.node, c.key, c.effect)
    IN  /\ call.patches = IF matching = {} THEN 0 ELSE 1
        /\ matching = {} => after = before
        /\ matching # {} =>
              /\ NodeTaintSet(after) =
                    {taint \in NodeTaintSet(read.node) :
                        ~TaintMatches(taint, c.key, c.effect)}
              /\ Len(after.taints)
                    = Len(read.node.taints) - Cardinality(matching)

UntaintNodeRemovesExactly(t) ==
    /\ UntaintNodeCases(pending[t], ghost', pending[t].response,
                        host_table[pending[t].node_name],
                        host_table'[pending[t].node_name])
    /\ OtherNodesUnchanged(pending[t].node_name)

\* In this step t ends an untaint_node that found the node as it read it,
\* and the call that ended before it is a taint_node of the same node, key
\* and effect that found the node as it read it: the two calls ran one
\* after the other.
UntaintAfterTaint(t) ==
    /\ KubeCallEnds(t, "untaint_node")
    /\ KubeCallUndisturbed(t)
    /\ FollowsTaint(pending[t].node_name, pending[t].effect, pending[t].key)
    /\ ghost.undisturbed

\* C39: untaint_node removes exactly the taints whose key and effect both
\* match, issues no patch when none matches, and after a taint_node with
\* the same key and effect restores the taint set the node had before that
\* taint_node.
C39_UntaintRestoresPreviousTaints ==
    [][\A t \in KubeThreads :
          /\ KubeCallEnds(t, "untaint_node") => UntaintNodeRemovesExactly(t)
          /\ UntaintAfterTaint(t) =>
                NodeTaintSet(host_table'[pending[t].node_name])
                    = NodeTaintSet(ghost.before)]_vars

\* What holds of untaint_node: exact removal, and after a taint_node the
\* previous taint set without the taints of that key and effect, which is
\* the previous set only when the node had none.
UntaintNodeRemovesExactlyAndAllMatching ==
    [][\A t \in KubeThreads :
          /\ KubeCallEnds(t, "untaint_node") => UntaintNodeRemovesExactly(t)
          /\ UntaintAfterTaint(t) =>
                NodeTaintSet(host_table'[pending[t].node_name])
                    = {taint \in NodeTaintSet(ghost.before) :
                          ~TaintMatches(taint, ghost.key, ghost.effect)}]_vars

====
